---- MODULE Spec2Model ----
(***************************************************************************)
(* Reorder-policy engine of bwm_custom.                                    *)
(*                                                                         *)
(*   material_planning_request.py : get_item_classification_for_mpr and    *)
(*                                  its helpers                            *)
(*   item_planning_policy.py      : ItemPlanningPolicy.validate and its    *)
(*                                  steps                                  *)
(*                                                                         *)
(* Numbers.  Python floats are carried as fixed-point integers with        *)
(* ROUND_PLACES decimals (1.0 is SCALE); a division floors, round(x, 2)    *)
(* rounds half up.  The coefficient of variation is carried as the exact   *)
(* rational cv^2 = num/den, so the class thresholds are compared exactly.  *)
(* Optional values are sequences: <<>> is None, <<v>> is the value v.      *)
(* The database is the tuple of the result sets of the queries the code    *)
(* issues for one (item, cost_center): db.                                 *)
(***************************************************************************)
EXTENDS Integers, Sequences, FiniteSets, TLC

VARIABLES
    db,     \* result sets of the queries, for the item and cost center at hand
    out,    \* <<>> before the call, <<dict>> returned by get_item_classification_for_mpr
    doc,    \* the Item Planning Policy document (its fields; saved = validate has run)
    mpr,    \* the Material Planning Request document with its child rows
    mrs,    \* calls of create_material_request_for_mpr: what each threw or inserted
    policy_doc, \* the stored Item Planning Policy that apply_item_reorder_from_policy reads
    item_doc,   \* the Item of that policy: its reorder_levels table, and the write permission
    applied,\* <<>>, or <<what the last apply_item_reorder_from_policy threw or returned,
            \*            and the op of the call before it>>
    pin,    \* arguments of one call of the policy selector
    pres,   \* <<>> before that call, <<[policy, coverage]>> after it
    checkins,   \* tabEmployee Checkin, in insertion order
    settings,   \* the ESSL settings document, with its cursors
    devices,    \* serial number -> the transaction log the eSSL server holds for the device
    clock,      \* datetime.now(), in seconds
    synced,     \* <<>>, or <<what the last sync_realtime_tick / essl_sync returned>>
    visits,         \* the Visit documents, by name; docstatus 0 draft, 1 submitted, 2 cancelled
    run_sheet_logs, \* Run Sheet name -> its visit_history child table
    account_logs    \* <<doctype, name>> of a Customer / Lead / CRM Deal -> its logs child table

\* the variables of apply_item_reorder_from_policy
reorderVars == <<policy_doc, item_doc, applied>>

\* the variables of essl_sync.py
esslVars == <<checkins, settings, devices, clock, synced>>

\* the variables of visit_doctype.py
visitVars == <<visits, run_sheet_logs, account_logs>>

vars == <<db, out, doc, pin, pres, mpr, mrs, policy_doc, item_doc, applied,
          checkins, settings, devices, clock, synced,
          visits, run_sheet_logs, account_logs>>

-----------------------------------------------------------------------------
(* Bounds of the model *)

MaxMonths == 4       \* monthly buckets in the trailing-12-month result
MaxQty == 4          \* largest monthly / weekly quantity
MaxLT == 5           \* rows of the lead-time result
MaxPerm == 2         \* rows of the lead-time results taken in every order
MaxDelta == 3        \* largest PO -> PR day difference
MaxCustomers == 5    \* distinct customers (5 is the override gate)
MaxRows == 3         \* rows of the Item's reorder_levels table before the call
MaxTicks == 2         \* runs of sync_realtime_tick
MaxCheckins == 4      \* Employee Checkin rows beyond which no further sync starts
MaxBuckets == 13     \* monthly buckets of a long history (the window touches 13 months)

-----------------------------------------------------------------------------
(* Program constants *)

ROUND_PLACES == 3
SCALE == 10 ^ ROUND_PLACES

Z_A1 == 2326         \* 2.32634787404084
Z_A == 2054          \* 2.05374891063182
Z_DEFAULT == 1960    \* 1.95996398454005
FALLBACK_DAYS == 45
COVERAGE_MTS == 40
COVERAGE_LITE == 20

-----------------------------------------------------------------------------
(* Arithmetic *)

Fx(n) == n * SCALE
MulFx(a, b) == (a * b) \div SCALE
DivFx(a, b) == (a * SCALE) \div b
Max(a, b) == IF a >= b THEN a ELSE b
Min(a, b) == IF a <= b THEN a ELSE b
Round2(x) == ((x + 5) \div 10) * 10

RECURSIVE ISqrtIn(_, _, _)
ISqrtIn(n, lo, hi) ==
    IF lo >= hi THEN lo
    ELSE LET mid == (lo + hi + 1) \div 2
         IN  IF mid * mid <= n THEN ISqrtIn(n, mid, hi) ELSE ISqrtIn(n, lo, mid - 1)

ISqrt(n) == IF n <= 0 THEN 0 ELSE ISqrtIn(n, 0, Min(n, 46340))
SqrtFx(x) == ISqrt(x * SCALE)

RECURSIVE SumSeq(_)
SumSeq(s) == IF s = <<>> THEN 0 ELSE Head(s) + SumSeq(Tail(s))

RECURSIVE SumSq(_)
SumSq(s) == IF s = <<>> THEN 0 ELSE Head(s) * Head(s) + SumSq(Tail(s))

RECURSIVE CountGE1(_)
CountGE1(s) == IF s = <<>> THEN 0 ELSE (IF Head(s) >= 1 THEN 1 ELSE 0) + CountGE1(Tail(s))

Sorted(s) == SortSeq(s, LAMBDA a, b : a < b)

\* statistics.stdev / STDDEV_SAMP of integer samples (n >= 2), fixed point
StdevSamp(s) ==
    LET n == Len(s)
        V == n * SumSq(s) - SumSeq(s) * SumSeq(s)
    IN  ISqrt(((V * SCALE) \div (n * (n - 1))) * SCALE)

\* STDDEV (population) of integer samples (n >= 1), fixed point
StdevPop(s) ==
    LET n == Len(s)
        V == n * SumSq(s) - SumSeq(s) * SumSeq(s)
    IN  ISqrt(((V * SCALE) \div (n * n)) * SCALE)

-----------------------------------------------------------------------------
(* Strings: str.strip() and str.upper() on the strings the model uses *)

Strip(s) == CASE s = "A1 " -> "A1" [] s = " " -> "" [] s = "wh " -> "wh"
              [] s = "Transfer " -> "Transfer" [] s = " S2" -> "S2" [] OTHER -> s
Upper(s) == CASE s = "a1" -> "A1" [] s = "a2" -> "A2" [] OTHER -> s
Casefold(s) == CASE s = "WH" -> "wh" [] s = "W2" -> "w2" [] s = "Purchase" -> "purchase"
                 [] s = "Transfer" -> "transfer" [] s = "GRP" -> "grp" [] OTHER -> s
OrEmpty(o) == IF o = <<>> THEN "" ELSE o[1]
StartsWithA(s) == s \in {"A", "A1", "A2", "A3", "A+"}

-----------------------------------------------------------------------------
(* material_planning_request.py: helpers *)

_z_from_abc(abc_fine, tier) ==
    LET fine == Upper(Strip(OrEmpty(abc_fine)))
        t == Upper(Strip(OrEmpty(tier)))
    IN  IF fine = "A1" THEN Z_A1
        ELSE IF fine \in {"A2", "A"} \/ t = "A" THEN Z_A
        ELSE Z_DEFAULT

\* the SELECT of _weekly_demand_from_sle over the weekly buckets:
\* <<COUNT(*), SUM/365, STDDEV_SAMP/SQRT(7)>>, NULL as <<>>
WeeklySql(weeks) ==
    << Len(weeks),
       IF Len(weeks) = 0 THEN <<>> ELSE << Fx(SumSeq(weeks)) \div 365 >>,
       IF Len(weeks) < 2 THEN <<>> ELSE << DivFx(StdevSamp(weeks), SqrtFx(Fx(7))) >> >>

_weekly_demand_from_sle(item_code, weeks) ==
    IF item_code = "" THEN <<0, 0>>
    ELSE LET val == WeeklySql(weeks)
             weeks_sampled == val[1]
             add_per_day == IF val[2] = <<>> THEN 0 ELSE val[2][1]
             sigma_daily == IF val[3] = <<>> THEN 0 ELSE val[3][1]
         IN  IF weeks_sampled <= 0 THEN <<0, 0>> ELSE <<add_per_day, sigma_daily>>

\* `v if (v and v > 0) else None`
PosOrNone(o) == IF o # <<>> /\ o[1] > 0 THEN o ELSE <<>>

\* _choose_lead_days_for_mpr with the label of the A1/A2 branch copied into the
\* other branch
_choose_lead_days_for_mpr_label(abc_fine, p50_val, p80_val, lt_avg) ==
    LET p50 == PosOrNone(p50_val)
        p80 == PosOrNone(p80_val)
        avg == PosOrNone(lt_avg)
    IN  IF Upper(OrEmpty(abc_fine)) \in {"A1", "A2"}
        THEN IF p80 # <<>> THEN <<p80[1], "P80">>
             ELSE IF avg # <<>> THEN <<avg[1], "AVG">>
             ELSE <<Fx(FALLBACK_DAYS), "FALLBACK45">>
        ELSE IF p50 # <<>> THEN <<p50[1], "P80">>
             ELSE IF avg # <<>> THEN <<avg[1], "AVG">>
             ELSE <<Fx(FALLBACK_DAYS), "FALLBACK45">>

_choose_lead_days_for_mpr(abc_fine, p50_val, p80_val, lt_avg) ==
    LET p50 == PosOrNone(p50_val)
        p80 == PosOrNone(p80_val)
        avg == PosOrNone(lt_avg)
    IN  IF Upper(OrEmpty(abc_fine)) \in {"A1", "A2"}
        THEN IF p80 # <<>> THEN <<p80[1], "P80">>
             ELSE IF avg # <<>> THEN <<avg[1], "AVG">>
             ELSE <<Fx(FALLBACK_DAYS), "FALLBACK45">>
        ELSE IF p50 # <<>> THEN <<p50[1], "P50">>
             ELSE IF avg # <<>> THEN <<avg[1], "AVG">>
             ELSE <<Fx(FALLBACK_DAYS), "FALLBACK45">>

\* cv <= p/q for cv = <<[num, den]>>, cv^2 = num/den
CvLE(cv, p, q) == cv[1].num * q * q <= p * p * cv[1].den

\* _pick_policy with the customer gate of the override branch lowered to that of
\* the main branch
_pick_policy_gate2(abc_fine, xyz, fsn, customers, cv, active_months_12) ==
    LET a == Upper(Strip(OrEmpty(abc_fine)))
        x == Upper(Strip(xyz))
        f == Upper(Strip(fsn))
        is_A12 == a \in {"A1", "A2"}
        fsn_good == f \in {"F", "S"}
        cond_main == is_A12 /\ x \in {"X", "Y"} /\ fsn_good /\ customers >= 2
        cond_override == /\ a = "A1"
                         /\ cv # <<>> /\ CvLE(cv, 7, 4)
                         /\ customers >= 2
                         /\ active_months_12 >= 6
    IN  IF is_A12 /\ x = "X" /\ fsn_good /\ customers >= 2 THEN "MTS"
        ELSE IF cond_main \/ cond_override THEN "MTS-Lite"
        ELSE "MTO"

\* _pick_policy with the MTS-Lite test before the MTS test
_pick_policy_lite_first(abc_fine, xyz, fsn, customers, cv, active_months_12) ==
    LET a == Upper(Strip(OrEmpty(abc_fine)))
        x == Upper(Strip(xyz))
        f == Upper(Strip(fsn))
        is_A12 == a \in {"A1", "A2"}
        fsn_good == f \in {"F", "S"}
        cond_main == is_A12 /\ x \in {"X", "Y"} /\ fsn_good /\ customers >= 2
        cond_override == /\ a = "A1"
                         /\ cv # <<>> /\ CvLE(cv, 7, 4)
                         /\ customers >= 5
                         /\ active_months_12 >= 6
    IN  IF cond_main \/ cond_override THEN "MTS-Lite"
        ELSE IF is_A12 /\ x = "X" /\ fsn_good /\ customers >= 2 THEN "MTS"
        ELSE "MTO"

_pick_policy(abc_fine, xyz, fsn, customers, cv, active_months_12) ==
    LET a == Upper(Strip(OrEmpty(abc_fine)))
        x == Upper(Strip(xyz))
        f == Upper(Strip(fsn))
        is_A12 == a \in {"A1", "A2"}
        fsn_good == f \in {"F", "S"}
        cond_main == is_A12 /\ x \in {"X", "Y"} /\ fsn_good /\ customers >= 2
        cond_override == /\ a = "A1"
                         /\ cv # <<>> /\ CvLE(cv, 7, 4)
                         /\ customers >= 5
                         /\ active_months_12 >= 6
    IN  IF is_A12 /\ x = "X" /\ fsn_good /\ customers >= 2 THEN "MTS"
        ELSE IF cond_main \/ cond_override THEN "MTS-Lite"
        ELSE "MTO"

\* policy -> coverage, step 8 of get_item_classification_for_mpr
CoverageOf(policy) ==
    IF policy = "MTS" THEN COVERAGE_MTS
    ELSE IF policy = "MTS-Lite" THEN COVERAGE_LITE
    ELSE 0

-----------------------------------------------------------------------------
(* material_planning_request.py: get_item_classification_for_mpr *)

\* lt_sql: GREATEST(0, DATEDIFF(pr.posting_date, po.transaction_date)) per row
MprLeadRows(deltas) == [i \in 1..Len(deltas) |-> Max(0, deltas[i])]

\* step 2: XYZ and monthly statistics; cv is <<>> or <<[num, den]>>
MonthlyStats(monthly_vals) ==
    IF monthly_vals # <<>> /\ SumSeq(monthly_vals) # 0
    THEN LET n == Len(monthly_vals)
             T == SumSeq(monthly_vals)
             V == n * SumSq(monthly_vals) - T * T
             avg_m == DivFx(T, n)
             sd_m == IF n >= 2 THEN StdevSamp(monthly_vals) ELSE 0
             cv == IF T > 0
                   THEN IF n >= 2 THEN << [num |-> V * n, den |-> (n - 1) * T * T] >>
                                  ELSE << [num |-> 0, den |-> 1] >>
                   ELSE <<>>
             xyz == IF T = 0 \/ cv = <<>> THEN "Z"
                    ELSE IF CvLE(cv, 3, 4) THEN "X"
                    ELSE IF CvLE(cv, 5, 4) THEN "Y"
                    ELSE "Z"
         IN  [xyz |-> xyz, avg_m |-> avg_m, sd_m |-> sd_m, units_365d |-> Fx(T), cv |-> cv]
    ELSE [xyz |-> "Z", avg_m |-> 0, sd_m |-> 0, units_365d |-> 0, cv |-> <<>>]

\* FsnOf with a strict first threshold
FsnOf_gt9(active_months_12) ==
    IF active_months_12 > 9 THEN "F"
    ELSE IF 4 <= active_months_12 /\ active_months_12 <= 8 THEN "S"
    ELSE "N"

\* step 3: FSN from the active months
FsnOf(active_months_12) ==
    IF active_months_12 >= 9 THEN "F"
    ELSE IF 4 <= active_months_12 /\ active_months_12 <= 8 THEN "S"
    ELSE "N"

\* step 4: <<p50_val, p80_val, lt_avg>> of the lead-time rows, each <<>> or <<v>>
MprLeadStats(rows) ==
    IF rows = <<>> THEN << <<>>, <<>>, <<>> >>
    ELSE LET lt_values == Sorted(rows)
             n == Len(lt_values)
             lt_avg == DivFx(SumSeq(lt_values), n)
             mid == n \div 2
             p50_val == IF n % 2 = 1 THEN Fx(lt_values[mid + 1])
                        ELSE (Fx(lt_values[mid]) + Fx(lt_values[mid + 1])) \div 2
             pos80 == Max(0, Min(((4 * n + 4) \div 5) - 1, n - 1))
             p80_val == Fx(lt_values[pos80 + 1])
         IN  << <<p50_val>>, <<p80_val>>, <<lt_avg>> >>

\* steps 6 and 7: <<safety_stock_units, safety_days, rol_suggested>>
MprSafetyAndRol(Z, add_per_day, sigma_daily, L) ==
    LET ok == add_per_day > 0 /\ sigma_daily > 0 /\ L > 0
        safety_stock_units == IF ok THEN MulFx(Z, MulFx(sigma_daily, SqrtFx(L))) ELSE 0
        safety_days == IF ok THEN DivFx(safety_stock_units, add_per_day) ELSE 0
        rol_suggested == IF add_per_day > 0 /\ L > 0
                         THEN MulFx(add_per_day, L) + safety_stock_units
                         ELSE 0
    IN  <<safety_stock_units, safety_days, rol_suggested>>

\* MprRoq with a floor of one unit on the quantity of a stocked policy
MprRoq_floor1(coverage, add_per_day) ==
    IF coverage # 0 THEN Max(Fx(1), coverage * add_per_day) ELSE 0

\* step 8: ROQ
MprRoq(coverage, add_per_day) ==
    IF coverage # 0 /\ add_per_day > 0 THEN coverage * add_per_day ELSE 0

\* EffectiveDemand without the test of the monthly standard deviation
EffectiveDemand_noSd(ms, item_code) ==
    IF ms.xyz = "X" /\ ms.units_365d > 0
    THEN << ms.units_365d \div 365, DivFx(ms.sd_m, SqrtFx(DivFx(365, 12))) >>
    ELSE _weekly_demand_from_sle(item_code, db.sle_weeks)

\* step 5: <<add_per_day, sigma_daily>>, monthly for X items with valid monthly
\* statistics, weekly otherwise
EffectiveDemand(ms, item_code) ==
    IF ms.xyz = "X" /\ ms.units_365d > 0 /\ ms.sd_m > 0
    THEN << ms.units_365d \div 365, DivFx(ms.sd_m, SqrtFx(DivFx(365, 12))) >>
    ELSE _weekly_demand_from_sle(item_code, db.sle_weeks)

get_item_classification_for_mpr(item, cost_center) ==
    LET item_code == Strip(item)
        cc_name == Strip(cost_center)
    IN
    IF item_code = "" \/ cc_name = "" THEN [computed |-> FALSE]
    ELSE
    LET abc_rows == db.abc
        abc_fine == IF abc_rows # <<>> THEN << Upper(Strip(abc_rows[1].cls)) >> ELSE <<>>
        tier == IF abc_rows # <<>> THEN << Upper(Strip(abc_rows[1].tier)) >> ELSE <<>>
        monthly_vals == db.monthly
        ms == MonthlyStats(monthly_vals)
        customers_t12 == db.customers
        active_months_12 == CountGE1(monthly_vals)
        fsn == FsnOf(active_months_12)
        lt == MprLeadStats(MprLeadRows(db.lt_deltas))
        p50_val == lt[1]
        p80_val == lt[2]
        lt_avg == lt[3]
        chosen == _choose_lead_days_for_mpr(abc_fine, p50_val, p80_val, lt_avg)
        lt_used == chosen[1]
        lt_basis == chosen[2]
        demand == EffectiveDemand(ms, item_code)
        add_per_day == demand[1]
        sigma_daily == demand[2]
        Z == _z_from_abc(abc_fine, tier)
        L == lt_used
        sr == MprSafetyAndRol(Z, add_per_day, sigma_daily, L)
        policy == _pick_policy(abc_fine, ms.xyz, fsn, customers_t12, ms.cv, active_months_12)
        coverage == CoverageOf(policy)
        roq_suggested == MprRoq(coverage, add_per_day)
        recommended_rol == Round2(Max(0, sr[3]))
        on_hand_qty == Fx(db.bin.actual_qty)
        projected_qty == Fx(db.bin.projected_qty)
    IN  [ computed |-> TRUE,
          item_classification |-> OrEmpty(abc_fine),
          _tier |-> OrEmpty(tier),
          xyz_classification |-> ms.xyz,
          avg_monthly_qty |-> ms.avg_m,
          sd |-> ms.sd_m,
          total_units |-> ms.units_365d,
          cv |-> ms.cv,
          fsn |-> fsn,
          customer_count |-> customers_t12,
          active_months_12 |-> active_months_12,
          p50 |-> IF p50_val # <<>> THEN Round2(p50_val[1]) ELSE 0,
          p80 |-> IF p80_val # <<>> THEN Round2(p80_val[1]) ELSE 0,
          lt_used_days |-> Round2(lt_used),
          lt_basis |-> lt_basis,
          add_per_day |-> add_per_day,
          sigma_daily |-> sigma_daily,
          safety_stock_unit |-> Round2(Max(0, sr[1])),
          safety_day |-> Round2(Max(0, sr[2])),
          recommended_rol |-> recommended_rol,
          coverage_days |-> coverage,
          policy_recommendation |-> policy,
          roq_suggested |-> Round2(roq_suggested),
          recommended_roq |-> Round2(roq_suggested),
          on_hand_qty |-> on_hand_qty,
          projected_qty |-> projected_qty,
          reserved_qty |-> Fx(db.bin.reserved_qty),
          ordered_qty |-> Fx(db.bin.ordered_qty),
          on_hand_coverage_days |->
              IF add_per_day > 0 THEN Round2(DivFx(on_hand_qty, add_per_day)) ELSE 0,
          projected_coverage_days |->
              IF add_per_day > 0 THEN Round2(DivFx(projected_qty, add_per_day)) ELSE 0,
          projected_minus_rol |-> Round2(projected_qty - recommended_rol) ]


-----------------------------------------------------------------------------
(* material_planning_request.py: MaterialPlanningRequest.validate.  A child  *)
(* row has every calculated field (every hasattr test is true).             *)

\* round(cv, 3) of cv^2 = num/den, in thousandths
CvRound3(cv) ==
    LET A == cv[1].num * SCALE
        X == (A \div cv[1].den) * SCALE + ((A % cv[1].den) * SCALE) \div cv[1].den
        r == ISqrt(X)
    IN  IF X > r * r + r THEN r + 1 ELSE r

NumericRowFields ==
    {"customer_count", "avg_monthly_qty", "sd", "total_units", "cv", "p50", "p80",
     "lt_used_days", "add_per_day", "sigma_daily", "safety_stock_unit", "safety_day",
     "recommended_rol", "coverage_days", "recommended_roq", "on_hand_qty",
     "projected_qty", "reserved_qty", "ordered_qty", "on_hand_coverage_days",
     "projected_coverage_days", "projected_minus_rol"}

_clear_child_row(row) ==
    [f \in DOMAIN row |->
        IF f \in {"item_classification", "xyz_classification", "fsn"} THEN ""
        ELSE IF f \in NumericRowFields THEN 0
        ELSE row[f]]

\* the assignments of _recompute_child_rows from the returned data
AssignChildRow(row, data) ==
    [f \in DOMAIN row |->
        IF f = "cv" THEN (IF data.cv = <<>> THEN 0 ELSE CvRound3(data.cv))
        ELSE IF f \in NumericRowFields \cup {"item_classification", "xyz_classification", "fsn"}
             THEN data[f]
        ELSE row[f]]

_recompute_child_rows(m) ==
    LET cc == Strip(m.cost_center)
        Row(row) ==
            IF cc = "" THEN _clear_child_row(row)
            ELSE LET item_code == Strip(row.item)
                 IN  IF item_code = "" THEN _clear_child_row(row)
                     ELSE LET data == get_item_classification_for_mpr(item_code, cc)
                          IN  IF ~data.computed THEN _clear_child_row(row)
                              ELSE AssignChildRow(row, data)
    IN  [m EXCEPT !.material_planning_request_item =
                      [i \in DOMAIN @ |-> Row(@[i])]]

\* a query of get_item_classification_for_mpr raises for the row named fail: the row
\* is reached when the document has a cost center and the row an item
QueryRaises(m, fail) ==
    /\ Strip(m.cost_center) # ""
    /\ \E i \in DOMAIN m.material_planning_request_item :
          /\ m.material_planning_request_item[i].name = fail
          /\ Strip(m.material_planning_request_item[i].item) # ""

\* MaterialPlanningRequest.validate on a save.  Nothing catches the exception of a
\* query: it leaves validate, the save is abandoned and the stored rows stay.
MaterialPlanningRequest_validate(m, fail) ==
    IF QueryRaises(m, fail)
    THEN [m EXCEPT !.saved = FALSE, !.raised = fail]
    ELSE [_recompute_child_rows(m) EXCEPT !.saved = TRUE, !.raised = ""]

\* frappe.db.get_value("UOM", uom, "must_be_whole_number")
MustBeWhole(uom) == uom = "Nos"

\* rounding to the nearest whole number instead of up
CeilFx_nearest(x) == ((x + SCALE \div 2) \div SCALE) * SCALE

\* math.ceil of a quantity in thousandths
CeilFx(x) == ((x + SCALE - 1) \div SCALE) * SCALE

\* the rows argument: a list of names, the JSON text of such a list, a text that
\* is not JSON (taken as one name), or nothing; gives the set of selected names
SelectedNames(rows) ==
    IF rows.kind = "list" THEN rows.names
    ELSE IF rows.kind = "json" THEN rows.names
    ELSE IF rows.kind = "str" THEN rows.names
    ELSE {}

\* the call create_material_request_for_mpr(mpr_name, rows) on the stored
\* document m: what it throws, or the Material Request it inserts
create_material_request_for_mpr(m, rows) ==
    LET selected_names == SelectedNames(rows) IN
    IF selected_names = {} THEN [thrown |-> TRUE, msg |-> "Please select at least one row"]
    ELSE IF m.company = "" THEN [thrown |-> TRUE, msg |-> "Please set Company"]
    ELSE IF m.cost_center = "" THEN [thrown |-> TRUE, msg |-> "Please set Cost Center"]
    ELSE IF m.warehouse = "" THEN [thrown |-> TRUE, msg |-> "Please set Warehouse"]
    ELSE
    LET Qty(row) == IF Strip(row.uom) # "" /\ MustBeWhole(Strip(row.uom))
                    THEN CeilFx(row.recommended_rol)
                    ELSE row.recommended_rol
        Kept(row) == /\ row.name \in selected_names
                     /\ Strip(row.item) # ""
                     /\ row.recommended_rol > 0
                     /\ Qty(row) > 0
        kept == SelectSeq(m.material_planning_request_item, Kept)
        items == [i \in 1..Len(kept) |->
                    [ item_code |-> Strip(kept[i].item), qty |-> Qty(kept[i]),
                      uom |-> Strip(kept[i].uom), company |-> m.company,
                      cost_center |-> m.cost_center, warehouse |-> m.warehouse ]]
    IN  IF items = <<>>
        THEN [thrown |-> TRUE, msg |-> "No selected items with Recommended ROL > 0"]
        ELSE [thrown |-> FALSE,
              material_request |-> [ company |-> m.company,
                                     material_request_type |-> "Purchase",
                                     items |-> items ]]

-----------------------------------------------------------------------------
(* item_planning_policy.py: the steps of ItemPlanningPolicy.validate.       *)
(* Each step takes the document d and gives the document it leaves; the     *)
(* document has every field validate writes (every hasattr test is true).   *)

compute_last3_sales_qty(d) ==
    IF d.item = "" THEN <<[d EXCEPT !.last_3_month_sales_qty = 0], 0>>
    ELSE <<[d EXCEPT !.last_3_month_sales_qty = Fx(db.last3)], Fx(db.last3)>>

\* gives <<document, daily>>
compute_requirements(d, last3) ==
    LET monthly == last3 \div 3
        daily == monthly \div 30
    IN  <<[d EXCEPT !.monthly_requirement = monthly, !.daily_requirement = daily], daily>>

percentile_nearest_rank(sorted_vec, q) ==
    LET n == Len(sorted_vec)
    IN  IF n = 0 THEN 0
        ELSE IF n = 1 THEN Fx(sorted_vec[1])
        ELSE LET rank == Max(1, (q * n + 99) \div 100)
             IN  Fx(sorted_vec[rank])

\* the WHERE of the lead-time query keeps DATEDIFF >= 0, then GREATEST(0, .)
IppLeadRows(deltas) ==
    LET keep == SelectSeq(deltas, LAMBDA x : x >= 0)
    IN  [i \in 1..Len(keep) |-> Max(0, keep[i])]

ResetLeadTargets(d) ==
    [d EXCEPT !.lead_days = 0, !.p50_lead_days = 0, !.p50 = 0, !.p80 = 0,
              !.lead_time_average = 0]

compute_p50_lead_days(d) ==
    IF Strip(d.item) = "" \/ Strip(d.company) = "" THEN ResetLeadTargets(d)
    ELSE LET vec == Sorted(IppLeadRows(db.lt_deltas))
         IN  IF vec = <<>> THEN ResetLeadTargets(d)
             ELSE LET p50 == Round2(percentile_nearest_rank(vec, 50))
                      p80 == Round2(percentile_nearest_rank(vec, 80))
                      avg == Round2(DivFx(SumSeq(vec), Len(vec)))
                  IN  [d EXCEPT !.lead_days = p50, !.p50_lead_days = p50, !.p50 = p50,
                                !.p80 = p80, !.lead_time_average = avg]

_fetch_and_assign_item_classification(d) ==
    IF Strip(d.item) = "" \/ Strip(d.cost_center) = "" THEN d
    ELSE IF db.abc = <<>> THEN [d EXCEPT !._tier_value = <<"">>, !._class_value = <<"">>]
    ELSE LET cls == Strip(db.abc[1].cls)
             tier == Strip(db.abc[1].tier)
         IN  [d EXCEPT !.item_classification = IF cls # "" THEN cls ELSE @,
                       !._tier_value = <<Upper(tier)>>,
                       !._class_value = <<Upper(cls)>>]

compute_xyz_classification(d) ==
    IF Strip(d.item) = "" \/ Strip(d.cost_center) = ""
    THEN [d EXCEPT !.xyz_classifications = "", !.cv_t12 = <<>>, !.avg_m_qty = 0,
                   !.sd_m_qty = 0, !.units_365d = 0]
    ELSE LET ms == MonthlyStats(db.monthly)
         IN  [d EXCEPT !.avg_m_qty = ms.avg_m, !.sd_m_qty = ms.sd_m,
                       !.cv_t12 = IF ms.cv # <<>> THEN <<CvRound3(ms.cv)>> ELSE <<>>,
                       !.xyz_classifications = ms.xyz,
                       !.units_365d = ms.units_365d]

_t12_customer_invoice_fsn(d) ==
    IF Strip(d.item) = "" \/ Strip(d.cost_center) = "" THEN [d EXCEPT !.fsn_logic = "N"]
    ELSE LET active_months_12 == CountGE1(db.monthly)
         IN  [d EXCEPT !.customers_t12 = db.customers,
                       !.active_months_12 = active_months_12,
                       !.fsn_logic = FsnOf(active_months_12)]

_selected_lead_days(d) ==
    LET ic == Upper(Strip(d.item_classification))
        p50 == d.p50
        p80 == d.p80
        current == d.lead_days
    IN  IF ic \in {"A1", "A2"}
        THEN IF p80 > 0 THEN p80 ELSE IF p50 > 0 THEN p50 ELSE current
        ELSE IF p50 > 0 THEN p50 ELSE IF current > 0 THEN current ELSE 0

select_lead_days(d) == [d EXCEPT !.lead_days = _selected_lead_days(d)]

\* the two SELECTs of _get_demand_stats have an aggregate and no GROUP BY: each
\* gives one row, the total of the positive quantities (NULL when no row matches);
\* AVG and STDDEV run over those two rows and skip NULL
_get_demand_stats(si_total, dn_total) ==
    LET q == si_total \o dn_total
    IN  IF q = <<>> THEN <<0, 0>>
        ELSE << DivFx(SumSeq(q), Len(q)) \div 7,
                DivFx(StdevPop(q), SqrtFx(Fx(7))) >>

_get_z_value(d) ==
    LET tier == OrEmpty(d._tier_value)
        cls == OrEmpty(d._class_value)
    IN  IF tier \in {"A1", "A+", "A-PRIME"} THEN Z_A1
        ELSE IF cls = "A" \/ StartsWithA(tier) THEN Z_A
        ELSE Z_DEFAULT

\* the lead days compute_safety_days works with
SafetyLeadDays(d) ==
    LET L == _selected_lead_days(d)
    IN  IF L <= 0
        THEN (IF d.lead_time_average # 0 THEN d.lead_time_average ELSE Fx(FALLBACK_DAYS))
        ELSE L

compute_safety_days(d) ==
    IF Strip(d.item) = "" \/ Strip(d.company) = "" \/ Strip(d.cost_center) = "" THEN d
    ELSE LET st == _get_demand_stats(db.si_total, db.dn_total)
             add_per_day == st[1]
             sigma_daily == st[2]
             L == SafetyLeadDays(d)
             Z == _get_z_value(d)
         IN  IF add_per_day <= 0 \/ L <= 0 \/ sigma_daily <= 0
             THEN [d EXCEPT !.safety_days = 0]
             ELSE [d EXCEPT !.safety_days =
                      Round2(Max(0, DivFx(MulFx(Z, MulFx(sigma_daily, SqrtFx(L))), add_per_day)))]

compute_minimum_inventory_qty(d, daily) ==
    [d EXCEPT !.minimum_inventory_qty = MulFx(d.safety_days, daily)]

compute_rol(d, daily) ==
    LET safety_days == d.safety_days
        lead_days == _selected_lead_days(d)
    IN  [d EXCEPT !.rol = MulFx(safety_days + lead_days, daily)]

\* compute_policy_recommendation with the override gate cv < 1.75
compute_policy_recommendation_strict(d) ==
    LET abc_fine == Upper(Strip(d.item_classification))
        xyz == Upper(Strip(d.xyz_classifications))
        fsn == Upper(Strip(d.fsn_logic))
        customers == d.customers_t12
        active_m == d.active_months_12
        cv == d.cv_t12
        is_A12 == abc_fine \in {"A1", "A2"}
        fsn_good == fsn \in {"F", "S"}
        cond_main == is_A12 /\ xyz \in {"X", "Y"} /\ fsn_good /\ customers >= 2
        cond_override == /\ abc_fine = "A1"
                         /\ cv # <<>> /\ 4 * cv[1] < 7 * SCALE
                         /\ customers >= 5
                         /\ active_m >= 6
        rec == IF is_A12 /\ xyz = "X" /\ fsn_good /\ customers >= 2 THEN "MTS"
               ELSE IF cond_main \/ cond_override THEN "MTS-Lite"
               ELSE "MTO"
    IN  [d EXCEPT !.policy_recommendation = rec]

compute_policy_recommendation(d) ==
    LET abc_fine == Upper(Strip(d.item_classification))
        xyz == Upper(Strip(d.xyz_classifications))
        fsn == Upper(Strip(d.fsn_logic))
        customers == d.customers_t12
        active_m == d.active_months_12
        cv == d.cv_t12
        is_A12 == abc_fine \in {"A1", "A2"}
        fsn_good == fsn \in {"F", "S"}
        cond_main == is_A12 /\ xyz \in {"X", "Y"} /\ fsn_good /\ customers >= 2
        cond_override == /\ abc_fine = "A1"
                         /\ cv # <<>> /\ 4 * cv[1] <= 7 * SCALE
                         /\ customers >= 5
                         /\ active_m >= 6
        rec == IF is_A12 /\ xyz = "X" /\ fsn_good /\ customers >= 2 THEN "MTS"
               ELSE IF cond_main \/ cond_override THEN "MTS-Lite"
               ELSE "MTO"
    IN  [d EXCEPT !.policy_recommendation = rec]

apply_coverage_from_policy(d) ==
    LET rec == d.policy_recommendation
        days == IF rec = "MTS" THEN COVERAGE_MTS
                ELSE IF rec \in {"MTS-Lite", "MTS-LITE", "MTS LITE", "MTSLITE"} THEN COVERAGE_LITE
                ELSE 0
    IN  [d EXCEPT !.coverage_days = days]

\* compute_roq netting off the quantity stored on the document
compute_roq_net(d, daily) == [d EXCEPT !.roq = d.coverage_days * daily - @]

compute_roq(d, daily) == [d EXCEPT !.roq = d.coverage_days * daily]

validate(d0) ==
    LET s1 == compute_last3_sales_qty(d0)
        s2 == compute_requirements(s1[1], s1[2])
        daily == s2[2]
        d3 == compute_p50_lead_days(s2[1])
        d4 == _fetch_and_assign_item_classification(d3)
        d5 == compute_xyz_classification(d4)
        d6 == _t12_customer_invoice_fsn(d5)
        d7 == select_lead_days(d6)
        d8 == compute_safety_days(d7)
        d9 == compute_minimum_inventory_qty(d8, daily)
        d10 == compute_rol(d9, daily)
        d11 == compute_policy_recommendation(d10)
        d12 == apply_coverage_from_policy(d11)
    IN  compute_roq(d12, daily)


-----------------------------------------------------------------------------
(* item_planning_policy.py: apply_item_reorder_from_policy *)

\* norm(): (s or "").strip().casefold(); None is the empty string here
Norm(s) == Casefold(Strip(s))

\* the indices of s that satisfy Test, in order
IndicesOf(s, Test(_)) ==
    LET RECURSIVE From(_)
        From(i) == IF i > Len(s) THEN <<>>
                   ELSE IF Test(s[i]) THEN <<i>> \o From(i + 1)
                   ELSE From(i + 1)
    IN  From(1)

\* no removal at all
Without_none(s, drop) == s

\* saving the table without any of its rows
Without_all(s, drop) == <<>>

\* the sequence s without the elements at the indices of the set drop
Without(s, drop) ==
    LET RECURSIVE From(_)
        From(i) == IF i > Len(s) THEN <<>>
                   ELSE IF i \in drop THEN From(i + 1)
                   ELSE <<s[i]>> \o From(i + 1)
    IN  From(1)

\* the row that is kept and written: the first match
KeepOf(matches) == matches[1]

\* the call on the stored policy p and the Item it: what it throws, or the op it
\* returns and the reorder_levels it saves
apply_item_reorder_from_policy(p, it) ==
    IF \/ Strip(p.item) = ""
       \/ Strip(p.request_for_warehouse) = ""
       \/ Strip(p.material_request_type) = ""
       \/ p.final_rol = <<>>
       \/ p.final_roq = <<>>
    THEN [thrown |-> TRUE, msg |-> "Please enter", reorder_levels |-> it.reorder_levels]
    ELSE IF ~it.writable
    THEN [thrown |-> TRUE, msg |-> "You do not have permission", reorder_levels |-> it.reorder_levels]
    ELSE
    LET wh == Strip(p.request_for_warehouse)
        wh_group == Strip(p.check_in_groups)
        mr_type == Strip(p.material_request_type)
        rol == p.final_rol[1]
        roq == p.final_roq[1]
        rows == it.reorder_levels
        wh_n == Norm(wh)
        mr_n == Norm(mr_type)
        strict == IndicesOf([i \in 1..Len(rows) |-> i],
                            LAMBDA i : /\ Norm(rows[i].warehouse) = wh_n
                                       /\ Norm(rows[i].material_request_type) = mr_n)
        by_wh == IndicesOf([i \in 1..Len(rows) |-> i],
                           LAMBDA i : Norm(rows[i].warehouse) = wh_n)
        matches == IF strict # <<>> THEN strict
                   ELSE IF Len(by_wh) = 1 THEN by_wh
                   ELSE <<>>
    IN  IF matches # <<>>
        THEN LET k == KeepOf(matches)
                 keep == rows[k]
                 extras == {matches[j] : j \in 1..Len(matches)} \ {k}
                 is_changed == \/ keep.warehouse_reorder_level # rol
                               \/ keep.warehouse_reorder_qty # roq
                               \/ Norm(keep.material_request_type) # mr_n
                               \/ Norm(keep.warehouse_group) # Norm(wh_group)
                 written == IF is_changed
                            THEN [keep EXCEPT !.warehouse_reorder_level = rol,
                                              !.warehouse_reorder_qty = roq,
                                              !.material_request_type = mr_type,
                                              !.warehouse_group = wh_group]
                            ELSE keep
                 removed == {x \in extras :
                                /\ Norm(rows[x].warehouse) = wh_n
                                /\ Norm(rows[x].material_request_type) = mr_n}
             IN  [ thrown |-> FALSE,
                   op |-> IF is_changed THEN "updated"
                          ELSE IF removed # {} THEN "cleaned_duplicates"
                          ELSE "no_change",
                   reorder_levels |-> Without([rows EXCEPT ![k] = written], removed) ]
        ELSE [ thrown |-> FALSE, op |-> "inserted",
               reorder_levels |->
                   Append(rows, [ warehouse |-> wh, warehouse_group |-> wh_group,
                                  warehouse_reorder_level |-> rol,
                                  warehouse_reorder_qty |-> roq,
                                  material_request_type |-> mr_type ]) ]

-----------------------------------------------------------------------------
(* essl_sync.py: eSSL transaction logs -> Employee Checkin.  Times are       *)
(* seconds; a datetime and its "%Y-%m-%d %H:%M:%S" string are the same number. *)

\* tabEmployee
Employees ==
    { [name |-> "EMP1", attendance_device_id |-> "7", employee_number |-> "E-1"],
      [name |-> "EMP2", attendance_device_id |-> "", employee_number |-> "8"] }

\* DATE(time): the calendar day of a time
DateOf(t) == t \div 86400

\* dedupe keep order, "ALL" dropped
RECURSIVE _parse_csv_serials(_)
_parse_csv_serials(toks) ==
    IF toks = <<>> THEN <<>>
    ELSE LET init == _parse_csv_serials(SubSeq(toks, 1, Len(toks) - 1))
             s == Strip(toks[Len(toks)])
         IN  IF s = "" \/ Upper(s) = "ALL" \/ \E i \in 1..Len(init) : init[i] = s
             THEN init ELSE Append(init, s)

\* the child table essl_serials; an empty table is "no table"
_get_all_serials(st) ==
    IF st.essl_serials # <<>>
    THEN LET on == SelectSeq(st.essl_serials, LAMBDA r : r.enabled = 1)
             vals == [i \in 1..Len(on) |-> Strip(on[i].serial_number)]
         IN  SelectSeq(vals, LAMBDA v : v # "")
    ELSE _parse_csv_serials(st.essl_serial_number)

\* the first row of the child table with this serial number, 0 when there is none
RowOfSerial(st, serial) ==
    LET hits == {i \in 1..Len(st.essl_serials) :
                    Strip(st.essl_serials[i].serial_number) = serial}
    IN  IF hits = {} THEN 0 ELSE CHOOSE i \in hits : \A j \in hits : i <= j

_get_last_cursor_for_serial(st, serial) ==
    IF st.essl_serials # <<>>
    THEN IF RowOfSerial(st, serial) = 0 THEN <<>>
         ELSE st.essl_serials[RowOfSerial(st, serial)].last_cursor
    ELSE st.essl_last_cursor

_set_last_cursor_for_serial(st, serial, dt) ==
    IF st.essl_serials # <<>>
    THEN IF RowOfSerial(st, serial) = 0 THEN st
         ELSE [st EXCEPT !.essl_serials[RowOfSerial(st, serial)].last_cursor = <<dt>>]
    ELSE [st EXCEPT !.essl_last_cursor = <<dt>>]

\* <<>> or <<Employee.name>>: attendance_device_id, then name, then employee_number
_map_employee(emp_code) ==
    IF emp_code = "" THEN <<>>
    ELSE IF \E e \in Employees : e.attendance_device_id = emp_code
    THEN <<(CHOOSE e \in Employees : e.attendance_device_id = emp_code).name>>
    ELSE IF \E e \in Employees : e.name = emp_code
    THEN <<emp_code>>
    ELSE IF \E e \in Employees : e.employee_number = emp_code
    THEN <<(CHOOSE e \in Employees : e.employee_number = emp_code).name>>
    ELSE <<>>

\* IN for an even number of earlier check-ins of the employee on the day
_infer_log_type(cs, emp, ts) ==
    LET c == Cardinality({i \in 1..Len(cs) :
                 /\ cs[i].employee = emp
                 /\ DateOf(cs[i].time) = DateOf(ts)
                 /\ cs[i].time < ts})
    IN  IF c % 2 = 0 THEN "IN" ELSE "OUT"

\* the de-dup test without the test
CheckinExists_never(cs, emp, ts) == FALSE

\* frappe.db.exists("Employee Checkin", {"employee": emp, "time": ts})
CheckinExists(cs, emp, ts) ==
    \E i \in 1..Len(cs) : cs[i].employee = emp /\ cs[i].time = ts

\* the status and the table after the call
_insert_checkin(cs, st, emp, ts, device_id) ==
    IF emp = "" THEN [status |-> "skipped_invalid", checkins |-> cs]
    ELSE IF st.essl_allow_duplicates = 0 /\ CheckinExists(cs, emp, ts)
    THEN [status |-> "skipped_existing", checkins |-> cs]
    ELSE [status |-> "inserted",
          checkins |-> Append(cs,
              [employee |-> emp, time |-> ts, device_id |-> device_id,
               log_type |-> IF st.essl_infer_log_type = 1
                            THEN _infer_log_type(cs, emp, ts) ELSE ""])]

\* GetTransactionsLog of the eSSL server: the rows of the device's log in the window
GetTransactionsLog(dev, from_datetime, to_datetime, serial) ==
    IF serial \in DOMAIN dev
    THEN SelectSeq(dev[serial], LAMBDA r : from_datetime <= r.ts /\ r.ts <= to_datetime)
    ELSE <<>>

\* the rows of the device's log with an Employee, as (employee, ts)
MappedRows(raw_rows) ==
    LET hit == SelectSeq(raw_rows, LAMBDA r : _map_employee(r.emp_code) # <<>>)
    IN  [i \in 1..Len(hit) |-> [employee |-> _map_employee(hit[i].emp_code)[1], ts |-> hit[i].ts]]

\* the insert loop from row i on; the fail-th doc.insert() of the call raises
RECURSIVE InsertRows(_, _, _, _, _, _)
InsertRows(acc, st, mapped, i, device_id, fail) ==
    IF i > Len(mapped) THEN acc
    ELSE LET r == _insert_checkin(acc.checkins, st, mapped[i].employee, mapped[i].ts, device_id)
         IN  IF r.status = "inserted" /\ fail = acc.counts.inserted + 1
             THEN [acc EXCEPT !.thrown = TRUE]
             ELSE InsertRows([acc EXCEPT !.checkins = r.checkins,
                                         !.counts[r.status] = @ + 1],
                             st, mapped, i + 1, device_id, fail)

\* fail = -1: the SOAP call raises; fail = k > 0: the k-th doc.insert() raises
_sync_one_device(cs, st, dev, from_datetime, to_datetime, serial_number, preview, fail) ==
    LET serial == Strip(serial_number)
        raw_rows == IF fail = -1 THEN <<>>
                    ELSE GetTransactionsLog(dev, from_datetime, to_datetime, serial)
        mapped == MappedRows(raw_rows)
        out0 == [ thrown |-> fail = -1, checkins |-> cs,
                  from |-> from_datetime, to |-> to_datetime,
                  serial_number |-> serial, preview |-> preview # 0,
                  counts |-> [ fetched |-> Len(raw_rows), inserted |-> 0,
                               skipped_existing |-> 0, skipped_invalid |-> 0,
                               unmatched |-> Len(raw_rows) - Len(mapped) ] ]
    IN  IF fail = -1 \/ preview # 0 THEN out0
        ELSE InsertRows(out0, st, mapped, 1,
                        IF serial = "" THEN "ESSL:UNKNOWN" ELSE "ESSL:" \o serial, fail)

\* the loop of sync_realtime_tick over the serials from position i on; fails[i] is
\* what goes wrong for the i-th device.  An exception leaves the rows inserted so far
\* and the cursor of the device.
RECURSIVE TickLoop(_, _, _, _, _, _, _, _, _)
TickLoop(acc, serials, i, dev, now, overlap_seconds, backfill_minutes_if_empty, preview, fails) ==
    IF i > Len(serials) THEN acc
    ELSE LET sn == serials[i]
             last == _get_last_cursor_for_serial(acc.settings, sn)
             start == IF last # <<>> THEN last[1] - Max(0, overlap_seconds)
                      ELSE now - 60 * Max(1, backfill_minutes_if_empty)
             dev_res == _sync_one_device(acc.checkins, acc.settings, dev, start, now, sn,
                                         preview, fails[i])
             res == [ serial_number |-> Strip(sn), error |-> dev_res.thrown,
                      from |-> start, to |-> now, counts |-> dev_res.counts ]
         IN  TickLoop([ checkins |-> dev_res.checkins,
                        settings |-> IF dev_res.thrown THEN acc.settings
                                     ELSE _set_last_cursor_for_serial(acc.settings, sn, now),
                        devices |-> Append(acc.devices, res) ],
                      serials, i + 1, dev, now, overlap_seconds, backfill_minutes_if_empty,
                      preview, fails)

\* the table, the settings and the per-device results after one tick
sync_realtime_tick(cs, st, dev, now, overlap_seconds, backfill_minutes_if_empty, preview, fails) ==
    TickLoop([checkins |-> cs, settings |-> st, devices |-> <<>>],
             IF _get_all_serials(st) = <<>> THEN <<"">> ELSE _get_all_serials(st),
             1, dev, now, overlap_seconds, backfill_minutes_if_empty, preview, fails)

\* one device, the window given; an exception rolls the request back
essl_sync(cs, st, dev, from_datetime, to_datetime, preview, serial_number, fail) ==
    LET dev_res == _sync_one_device(cs, st, dev, from_datetime, to_datetime, serial_number,
                                    preview, fail)
    IN  [ checkins |-> IF dev_res.thrown THEN cs ELSE dev_res.checkins,
          settings |-> st,
          devices |-> << [ serial_number |-> dev_res.serial_number, error |-> dev_res.thrown,
                           from |-> from_datetime, to |-> to_datetime,
                           counts |-> dev_res.counts ] >> ]

------------------------------------------------------------------------------
(* State space *)

\* sequences over S of length at most k
SeqsUpTo(S, k) == UNION {[1..n -> S] : n \in 0..k}

\* the same, one per multiset (aggregates do not depend on the row order)
BagsUpTo(S, k) == {s \in SeqsUpTo(S, k) : \A i \in 1..(Len(s) - 1) : s[i] <= s[i + 1]}

Qtys == -1..MaxQty
Deltas == -1..MaxDelta

\* Item Classification / Bucket Branch Detail row: no row, or one (_class, _tier)
AbcAll == {<<>>} \cup
          {<<[cls |-> c, tier |-> t]>> :
              c \in {"A1", "a1", "A1 ", "A2", "A", "A3", "A+", "B1", ""},
              t \in {"A", "A1", "A+", "B", ""}}
AbcFew == {<<>>, <<[cls |-> "A1", tier |-> "A"]>>, <<[cls |-> "A2", tier |-> "A"]>>,
           <<[cls |-> "B1", tier |-> "B"]>>}

\* the three demand result sets: stock-ledger weeks, invoice total, delivery total
DemandFew == { [sle |-> <<>>, si |-> <<>>, dn |-> <<>>],
               [sle |-> <<MaxQty>>, si |-> <<MaxQty>>, dn |-> <<>>],
               [sle |-> <<1, MaxQty>>, si |-> <<MaxQty>>, dn |-> <<1>>] }

NewDoc ==
    [ item |-> "ITEM", company |-> "CO", cost_center |-> "CC", saved |-> FALSE,
      item_classification |-> "", _tier_value |-> <<>>, _class_value |-> <<>>,
      xyz_classifications |-> "", cv_t12 |-> <<>>, avg_m_qty |-> 0, sd_m_qty |-> 0,
      units_365d |-> 0, customers_t12 |-> 0, active_months_12 |-> 0, fsn_logic |-> "",
      policy_recommendation |-> "", coverage_days |-> 0,
      last_3_month_sales_qty |-> 0, monthly_requirement |-> 0, daily_requirement |-> 0,
      lead_days |-> 0, p50_lead_days |-> 0, p50 |-> 0, p80 |-> 0, lead_time_average |-> 0,
      safety_days |-> 0, minimum_inventory_qty |-> 0, rol |-> 0, roq |-> 0 ]

\* the sums of the Bin rows of the item in the warehouses of the cost center
NoStock == [actual_qty |-> 0, projected_qty |-> 0, reserved_qty |-> 0, ordered_qty |-> 0]

Db(abc, monthly, customers, lt, dem, last3) ==
    [ item |-> "ITEM", cost_center |-> "CC", abc |-> abc, monthly |-> monthly,
      customers |-> customers, lt_deltas |-> lt, sle_weeks |-> dem.sle,
      si_total |-> dem.si, dn_total |-> dem.dn, last3 |-> last3,
      bin |-> NoStock ]

BasePin == [abc_fine |-> <<>>, xyz |-> "Z", fsn |-> "N", customers |-> 0, cv |-> <<>>,
            active_months_12 |-> 0]

\* lead-time histories, for every classification
LtAll == SeqsUpTo(Deltas, MaxPerm) \cup BagsUpTo(Deltas, MaxLT)
DbLead == {Db(a, <<>>, 0, lt, dem, MaxQty) :
              a \in AbcFew, lt \in LtAll, dem \in DemandFew}

\* classification records
DbAbc == {Db(a, <<1, 1, 1, MaxQty>>, 2, lt, dem, MaxQty) :
              a \in AbcAll, lt \in {<<>>, <<MaxDelta>>}, dem \in DemandFew}

\* sales histories
DbSales == {Db(a, m, c, lt, dem, l3) :
              a \in AbcFew, m \in BagsUpTo(Qtys, MaxMonths), c \in {1, 2},
              lt \in {<<>>, <<MaxDelta>>}, dem \in DemandFew, l3 \in {-MaxQty, MaxQty}}

\* k copies of v
Rep(v, k) == [i \in 1..k |-> v]

\* more than MaxMonths buckets of quantity 0, 1 or 2, one history per multiset
LongHistories ==
    {Rep(0, n[1]) \o Rep(1, n[2]) \o Rep(2, n[3]) :
        n \in {t \in (0..MaxBuckets) \X (0..MaxBuckets) \X (0..MaxBuckets) :
                   /\ t[1] + t[2] + t[3] > MaxMonths
                   /\ t[1] + t[2] + t[3] <= MaxBuckets}}

\* long sales histories, quantities around the active-month threshold
DbFsn == {Db(<<[cls |-> "A1", tier |-> "A"]>>, m, 2, <<>>,
             [sle |-> <<>>, si |-> <<>>, dn |-> <<>>], MaxQty) :
             m \in LongHistories}

\* a child row of the Material Planning Request, calculated fields at v
ChildRow(name, item, uom, s, v) ==
    [ name |-> name, item |-> item, uom |-> uom,
      item_classification |-> s, xyz_classification |-> s, fsn |-> s,
      customer_count |-> v, avg_monthly_qty |-> v, sd |-> v, total_units |-> v,
      cv |-> v, p50 |-> v, p80 |-> v, lt_used_days |-> v, add_per_day |-> v,
      sigma_daily |-> v, safety_stock_unit |-> v, safety_day |-> v,
      recommended_rol |-> v, coverage_days |-> v, recommended_roq |-> v,
      on_hand_qty |-> v, projected_qty |-> v, reserved_qty |-> v, ordered_qty |-> v,
      on_hand_coverage_days |-> v, projected_coverage_days |-> v,
      projected_minus_rol |-> v ]

MprDoc(cost_center, warehouse, rows) ==
    [ name |-> "MPR-1", company |-> "CO", cost_center |-> cost_center,
      warehouse |-> warehouse, saved |-> FALSE, raised |-> "",
      material_planning_request_item |-> rows ]

\* no Material Planning Request at hand
NoMpr == MprDoc("CC", "WH", <<>>)

\* a stored policy of an item without reorder rows, never applied
PolicyDoc(wh, mr_type, final_rol, final_roq) ==
    [ item |-> "ITEM", request_for_warehouse |-> wh, material_request_type |-> mr_type,
      final_rol |-> final_rol, final_roq |-> final_roq, check_in_groups |-> "" ]

\* the ESSL settings document
EsslSettings(allow, rows, csv) ==
    [ essl_allow_duplicates |-> allow, essl_infer_log_type |-> 1,
      essl_serials |-> rows, essl_serial_number |-> csv, essl_last_cursor |-> <<>> ]

\* nothing configured, nothing imported
NoEssl ==
    /\ checkins = <<>>
    /\ settings = EsslSettings(0, <<>>, <<>>)
    /\ devices = [s \in {} |-> <<>>]
    /\ clock = 0
    /\ synced = <<>>

NoVisit ==
    /\ visits = <<>>
    /\ run_sheet_logs = <<>>
    /\ account_logs = <<>>

NoReorder ==
    /\ policy_doc = PolicyDoc("WH", "Purchase", <<>>, <<>>)
    /\ item_doc = [reorder_levels |-> <<>>, writable |-> TRUE]
    /\ applied = <<>>

Init ==
    /\ db \in DbLead \cup DbAbc \cup DbSales \cup DbFsn
    /\ out = <<>>
    /\ doc = NewDoc
    /\ pin = BasePin
    /\ pres = <<>>
    /\ mpr = NoMpr
    /\ mrs = <<>>
    /\ NoReorder
    /\ NoEssl
    /\ NoVisit

\* the whitelisted call get_item_classification_for_mpr(item, cost_center)
GetItemClassificationForMpr ==
    /\ out = <<>>
    /\ out' = <<get_item_classification_for_mpr(db.item, db.cost_center)>>
    /\ UNCHANGED <<db, doc, pin, pres, mpr, mrs, reorderVars, esslVars, visitVars>>

\* saving the Item Planning Policy document
Validate ==
    /\ doc' = [validate(doc) EXCEPT !.saved = TRUE]
    /\ UNCHANGED <<db, out, pin, pres, mpr, mrs, reorderVars, esslVars, visitVars>>

Next == GetItemClassificationForMpr \/ Validate

Spec == Init /\ [][Next]_vars

-----------------------------------------------------------------------------
(* Saving the two documents again and again, with edits between the saves *)

SomeStock == [actual_qty |-> 2, projected_qty |-> 1, reserved_qty |-> 1, ordered_qty |-> 0]

DbSave ==
    {[Db(a, m, 2, h.lt, h.dem, MaxQty) EXCEPT !.bin = h.bin] :
        a \in {<<>>, <<[cls |-> "A1", tier |-> "A"]>>},
        m \in {<<>>, <<MaxQty - 1, MaxQty, MaxQty, MaxQty>>},
        h \in {[lt |-> <<>>, dem |-> [sle |-> <<>>, si |-> <<>>, dn |-> <<>>],
                 bin |-> NoStock],
                [lt |-> <<MaxDelta>>,
                 dem |-> [sle |-> <<1, MaxQty>>, si |-> <<MaxQty>>, dn |-> <<1>>],
                 bin |-> SomeStock]}}

\* documents as stored before: a first row with calculated values of an earlier
\* computation and a whole-number UOM, a second row without
MprDocs ==
    {MprDoc(c, w, <<ChildRow("r1", i1, "Nos", "X", Fx(1) + SCALE \div 2),
                    ChildRow("r2", i2, "", "", 0)>>) :
        c \in {"CC", "", " "}, w \in {"WH", ""}, i1 \in {"ITEM", ""}, i2 \in {"ITEM", ""}}

\* rows arguments of the button call
RowsArgs ==
    {[kind |-> "list", names |-> S] : S \in SUBSET {"r1", "r2"}} \cup
    {[kind |-> "json", names |-> {"r1", "r2"}], [kind |-> "str", names |-> {"r1"}],
     [kind |-> "none", names |-> {}]}

\* a policy whose classification was stored by an earlier save, when the item still had
\* a classification record
StoredA1 == [NewDoc EXCEPT !.item_classification = "A1"]

InitSave ==
    /\ db \in DbSave
    /\ out = <<>>
    /\ doc \in {[NewDoc EXCEPT !.item = i, !.lead_days = l] :
                   i \in {"ITEM", ""}, l \in {0, Fx(MaxDelta)}}
               \cup {StoredA1}
    /\ pin = BasePin
    /\ pres = <<>>
    /\ mpr \in MprDocs
    /\ mrs = <<>>
    /\ NoReorder
    /\ NoEssl
    /\ NoVisit

\* the user changes the item or the cost center of the Item Planning Policy
EditDoc ==
    /\ doc.saved
    /\ \E f \in {"item", "cost_center"} : \E v \in {"", NewDoc[f]} :
          /\ v # doc[f]
          /\ doc' = [doc EXCEPT ![f] = v, !.saved = FALSE]
    /\ UNCHANGED <<db, out, pin, pres, mpr, mrs, reorderVars, esslVars, visitVars>>

\* saving the Material Planning Request
MprValidate ==
    /\ \E fail \in {"", "r1", "r2"} : mpr' = MaterialPlanningRequest_validate(mpr, fail)
    /\ UNCHANGED <<db, out, doc, pin, pres, mrs, reorderVars, esslVars, visitVars>>

\* the user empties the cost center of the Material Planning Request
MprEdit ==
    /\ mpr.saved
    /\ mpr.cost_center # ""
    /\ mpr' = [mpr EXCEPT !.cost_center = "", !.saved = FALSE, !.raised = ""]
    /\ UNCHANGED <<db, out, doc, pin, pres, mrs, reorderVars, esslVars, visitVars>>

\* the button 'Create Material Request', with the rows selected in the grid
CreateMaterialRequest ==
    /\ mpr.saved
    /\ mrs = <<>>
    /\ \E rows \in RowsArgs :
          mrs' = <<[rows |-> rows, mpr |-> mpr,
                    result |-> create_material_request_for_mpr(mpr, rows)]>>
    /\ UNCHANGED <<db, out, doc, pin, pres, mpr, reorderVars, esslVars, visitVars>>

NextSave == Validate \/ EditDoc \/ MprValidate \/ MprEdit \/ CreateMaterialRequest

SpecSave == InitSave /\ [][NextSave]_vars

-----------------------------------------------------------------------------
(* The reorder rows of the Item, written from the policy *)

ReorderRow(wh, mr_type, level, grp) ==
    [ warehouse |-> wh, material_request_type |-> mr_type, warehouse_group |-> grp,
      warehouse_reorder_level |-> Fx(level), warehouse_reorder_qty |-> Fx(level) ]

\* rows of the policy's warehouse under several spellings and types, a legacy row
\* without type, and rows of another warehouse
ReorderRows ==
    { ReorderRow("WH", "Purchase", MaxQty, ""), ReorderRow("WH", "Purchase", 0, ""),
      ReorderRow("wh ", "purchase", MaxQty, "GRP"), ReorderRow("WH", "Transfer", MaxQty, ""),
      ReorderRow("WH", "", 0, ""), ReorderRow("W2", "Purchase", MaxQty, ""),
      ReorderRow("W2", "Transfer", 0, "") }

Policies ==
    {PolicyDoc(wh, t, q.rol, q.roq) :
        wh \in {"WH", " "}, t \in {"Purchase", "Transfer "},
        q \in {[rol |-> <<Fx(MaxQty)>>, roq |-> <<Fx(MaxQty)>>],
                [rol |-> <<0>>, roq |-> <<0>>],
                [rol |-> <<>>, roq |-> <<Fx(MaxQty)>>]}}

InitReorder ==
    /\ db = Db(<<>>, <<>>, 0, <<>>, [sle |-> <<>>, si |-> <<>>, dn |-> <<>>], 0)
    /\ out = <<>>
    /\ doc = NewDoc
    /\ pin = BasePin
    /\ pres = <<>>
    /\ mpr = NoMpr
    /\ mrs = <<>>
    /\ policy_doc \in Policies
    /\ item_doc \in [reorder_levels : SeqsUpTo(ReorderRows, MaxRows), writable : BOOLEAN]
    /\ applied = <<>>
    /\ NoEssl
    /\ NoVisit

\* the button call apply_item_reorder_from_policy(policy_name); item.save() stores
\* the table
ApplyItemReorder ==
    /\ LET r == apply_item_reorder_from_policy(policy_doc, item_doc)
       IN  /\ applied' = <<[thrown |-> r.thrown, op |-> IF r.thrown THEN "" ELSE r.op,
                             prev |-> IF applied = <<>> THEN "" ELSE applied[1].op]>>
           /\ item_doc' = [item_doc EXCEPT !.reorder_levels = r.reorder_levels]
    /\ UNCHANGED <<db, out, doc, pin, pres, mpr, mrs, policy_doc, esslVars, visitVars>>

NextReorder == ApplyItemReorder

SpecReorder == InitReorder /\ [][NextReorder]_vars

-----------------------------------------------------------------------------
(* The eSSL sync: ticks and ad-hoc runs, one after another *)

\* the scheduler runs sync_realtime_tick every minute
TickSeconds == 60

SerialRow(serial_number, enabled) ==
    [serial_number |-> serial_number, enabled |-> enabled, last_cursor |-> <<>>]

\* per-device cursors, a disabled device, or the CSV with the global cursor
SettingsDocs ==
    { EsslSettings(0, rows[1], rows[2]) :
        rows \in { << <<SerialRow("S1", 1), SerialRow(" S2", 1)>>, <<>> >>,
                   << <<SerialRow("S1", 1), SerialRow("S2", 0)>>, <<"S2">> >>,
                   << <<>>, <<"S1", "ALL", "S2", "S1">> >> } }
    \cup { EsslSettings(1, <<>>, <<"S1", "ALL", "S2", "S1">>) }

Punch(emp_code, ts) == [emp_code |-> emp_code, ts |-> ts]

\* the logs of two devices: a punch read by both, a punch listed twice, an unknown
\* code, and the three ways a code names an Employee
DeviceLogs ==
    { [s \in {"S1", "S2"} |->
          IF s = "S1" THEN <<Punch("7", 30), Punch("7", 100), Punch("9", 100)>>
                      ELSE <<Punch("EMP1", 100), Punch("8", 170)>>],
      [s \in {"S1", "S2"} |->
          IF s = "S1" THEN <<Punch("7", 100), Punch("7", 100)>>
                      ELSE <<Punch("8", 130), Punch("E-1", 230)>>] }

\* (preview, what goes wrong per device): a preview, a clean run, the SOAP call of a
\* device raising, the second doc.insert() of a device raising
TickRuns ==
    { <<1, <<0, 0>> >>, <<0, <<0, 0>> >>, <<0, <<-1, 0>> >>, <<0, <<0, -1>> >>,
      <<0, <<2, 0>> >>, <<0, <<0, 2>> >>, <<0, <<-1, -1>> >> }

InitEssl ==
    /\ db = Db(<<>>, <<>>, 0, <<>>, [sle |-> <<>>, si |-> <<>>, dn |-> <<>>], 0)
    /\ out = <<>>
    /\ doc = NewDoc
    /\ pin = BasePin
    /\ pres = <<>>
    /\ mpr = NoMpr
    /\ mrs = <<>>
    /\ NoReorder
    /\ checkins = <<>>
    /\ settings \in SettingsDocs
    /\ devices \in DeviceLogs
    /\ clock = 2 * TickSeconds
    /\ synced = <<>>
    /\ NoVisit

\* the scheduled job, under its lock
SyncRealtimeTick ==
    /\ clock <= (MaxTicks + 1) * TickSeconds
    /\ Len(checkins) < MaxCheckins
    /\ \E overlap_seconds \in {0, 90}, backfill_minutes_if_empty \in {0, 10},
          run \in TickRuns :
          LET preview == run[1]
              fails == run[2]
          IN
          LET r == sync_realtime_tick(checkins, settings, devices, clock, overlap_seconds,
                                      backfill_minutes_if_empty, preview, fails)
          IN  /\ checkins' = r.checkins
              /\ settings' = r.settings
              /\ synced' = <<[api |-> "sync_realtime_tick", preview |-> preview,
                              devices |-> r.devices]>>
    /\ clock' = clock + TickSeconds
    /\ UNCHANGED <<db, out, doc, pin, pres, mpr, mrs, reorderVars, devices, visitVars>>

\* the whitelisted call for one device and one window
EsslSync ==
    /\ Len(checkins) < MaxCheckins
    /\ \E window \in {<<0, 110>>, <<90, 200>>}, serial_number \in {"S1", " S2"},
          run \in {<<0, 0>>, <<0, -1>>, <<0, 2>>, <<1, 0>>} :
          LET from_datetime == window[1]
              to_datetime == window[2]
              preview == run[1]
              fail == run[2]
          IN
          LET r == essl_sync(checkins, settings, devices, from_datetime, to_datetime, preview,
                             serial_number, fail)
          IN  /\ checkins' = r.checkins
              /\ settings' = r.settings
              /\ synced' = <<[api |-> "essl_sync", preview |-> preview, devices |-> r.devices]>>
    /\ UNCHANGED <<db, out, doc, pin, pres, mpr, mrs, reorderVars, devices, clock, visitVars>>

NextEssl == SyncRealtimeTick \/ EsslSync

SpecEssl == InitEssl /\ [][NextEssl]_vars

------------------------------------------------------------------------------
\* visit_doctype.py: the reference rows a Visit leaves on its Run Sheet and on
\* its Customer / Lead / CRM Deal.  None and the empty string are both "".

MaxVisits == 2

None == ""

\* _compact: drop the keys whose value is empty
_compact(d) == [k \in {x \in DOMAIN d : d[x] # None} |-> d[k]]

\* getattr(r, k, None)
getattr(r, k) == IF k \in DOMAIN r THEN r[k] ELSE None

_runsheet_row_payload(v) ==
    _compact([ visit_id |-> v.name, visit_date |-> v.visit_date,
               party_type |-> v.party_type, party |-> v.party,
               employee_id |-> v.employee, runsheet_id |-> v.run_sheet ])

_account_row_payload(v) ==
    _compact([ visit_id |-> v.name, visit_date |-> v.visit_date,
               employee_id |-> v.employee, runsheet_id |-> v.run_sheet ])

\* the Customer / Lead / CRM Deal the three branches of on_submit and on_cancel open
AccountOf(v) ==
    IF v.party_type \in {"Customer", "Lead", "CRM Deal"} /\ v.party # None
    THEN {<<v.party_type, v.party>>} ELSE {}

_same_row(v, r) ==
    \/ getattr(r, "visit_id") = v.name
    \/ /\ getattr(r, "visit_date") = v.visit_date
       /\ getattr(r, "runsheet_id") = v.run_sheet
       /\ getattr(r, "employee_id") = v.employee

\* [r for r in rows if keep(r)], for the two filters of on_cancel
RECURSIVE NotOfVisit(_, _)
NotOfVisit(rows, name) ==
    IF rows = <<>> THEN <<>>
    ELSE (IF getattr(Head(rows), "visit_id") # name THEN <<Head(rows)>> ELSE <<>>)
         \o NotOfVisit(Tail(rows), name)

RECURSIVE NotSameRow(_, _)
NotSameRow(rows, v) ==
    IF rows = <<>> THEN <<>>
    ELSE (IF ~_same_row(v, Head(rows)) THEN <<Head(rows)>> ELSE <<>>)
         \o NotSameRow(Tail(rows), v)

on_submit(v, rs, acc) ==
    [ run_sheet_logs |->
          [n \in DOMAIN rs |->
              IF v.run_sheet # None /\ n = v.run_sheet
              THEN Append(rs[n], _runsheet_row_payload(v)) ELSE rs[n]],
      account_logs |->
          [a \in DOMAIN acc |->
              IF a \in AccountOf(v)
              THEN Append(acc[a], _account_row_payload(v)) ELSE acc[a]] ]

on_cancel(v, rs, acc) ==
    [ run_sheet_logs |->
          [n \in DOMAIN rs |->
              IF v.run_sheet # None /\ n = v.run_sheet
              THEN NotOfVisit(rs[n], v.name) ELSE rs[n]],
      account_logs |->
          [a \in DOMAIN acc |->
              IF a \in AccountOf(v) THEN NotSameRow(acc[a], v) ELSE acc[a]] ]

RunSheets == {"RS1"}

AccountDocs == { <<"Customer", "C1">>, <<"Lead", "L1">>, <<"CRM Deal", "DL1">> }

\* what a Visit is filled with: <<employee, visit_date>>, run sheet, <<party_type, party>>
VisitOwners == { <<"E1", "D1">>, <<"E1", "D2">>, <<"E2", "D1">> }

VisitParties == AccountDocs \cup { <<"Customer", None>> }

VisitKinds == VisitOwners \X (RunSheets \cup {None}) \X VisitParties

VisitDoc(i, k) ==
    [ name |-> ToString(i), employee |-> k[1][1], visit_date |-> k[1][2], run_sheet |-> k[2],
      party_type |-> k[3][1], party |-> k[3][2], docstatus |-> 0 ]

InitVisit ==
    /\ db = Db(<<>>, <<>>, 0, <<>>, [sle |-> <<>>, si |-> <<>>, dn |-> <<>>], 0)
    /\ out = <<>>
    /\ doc = NewDoc
    /\ pin = BasePin
    /\ pres = <<>>
    /\ mpr = NoMpr
    /\ mrs = <<>>
    /\ NoReorder
    /\ NoEssl
    /\ visits \in { [i \in 1..MaxVisits |-> VisitDoc(i, f[i])] :
                    f \in [1..MaxVisits -> VisitKinds] }
    /\ run_sheet_logs = [n \in RunSheets |-> <<>>]
    /\ account_logs = [a \in AccountDocs |-> <<>>]

\* submitting a draft Visit runs on_submit
Submit ==
    /\ \E i \in DOMAIN visits :
          /\ visits[i].docstatus = 0
          /\ visits' = [visits EXCEPT ![i].docstatus = 1]
          /\ run_sheet_logs' = on_submit(visits[i], run_sheet_logs, account_logs).run_sheet_logs
          /\ account_logs' = on_submit(visits[i], run_sheet_logs, account_logs).account_logs
    /\ UNCHANGED <<db, out, doc, pin, pres, mpr, mrs, reorderVars, esslVars>>

\* cancelling a submitted Visit runs on_cancel
Cancel ==
    /\ \E i \in DOMAIN visits :
          /\ visits[i].docstatus = 1
          /\ visits' = [visits EXCEPT ![i].docstatus = 2]
          /\ run_sheet_logs' = on_cancel(visits[i], run_sheet_logs, account_logs).run_sheet_logs
          /\ account_logs' = on_cancel(visits[i], run_sheet_logs, account_logs).account_logs
    /\ UNCHANGED <<db, out, doc, pin, pres, mpr, mrs, reorderVars, esslVars>>

NextVisit == Submit \/ Cancel

SpecVisit == InitVisit /\ [][NextVisit]_vars

------------------------------------------------------------------------------
(* The policy selector on its own arguments *)

CvVals ==
    {<<>>} \cup {<<[num |-> n, den |-> 16]>> : n \in {0, 9, 25, 49, 50}}
           \cup {<<[num |-> c * c, den |-> 10000]>> : c \in {174, 176}}

InitPolicy ==
    /\ db = Db(<<>>, <<>>, 0, <<>>, [sle |-> <<>>, si |-> <<>>, dn |-> <<>>], 0)
    /\ out = <<>>
    /\ doc = NewDoc
    /\ pin \in [ abc_fine : {<<>>, <<"A1">>, <<"A2">>, <<"A">>, <<"B1">>, <<"">>},
                 xyz : {"X", "Y", "Z"},
                 fsn : {"F", "S", "N"},
                 customers : {0, 1, 2, MaxCustomers - 1, MaxCustomers},
                 cv : CvVals,
                 active_months_12 : {0, 5, 6, 12} ]
    /\ pres = <<>>
    /\ mpr = NoMpr
    /\ mrs = <<>>
    /\ NoReorder
    /\ NoEssl
    /\ NoVisit

PickPolicy ==
    /\ pres = <<>>
    /\ LET policy == _pick_policy(pin.abc_fine, pin.xyz, pin.fsn, pin.customers, pin.cv,
                                  pin.active_months_12)
       IN  pres' = <<[policy |-> policy, coverage |-> CoverageOf(policy)]>>
    /\ UNCHANGED <<db, out, doc, pin, mpr, mrs, reorderVars, esslVars, visitVars>>

NextPolicy == PickPolicy

SpecPolicy == InitPolicy /\ [][NextPolicy]_vars


-----------------------------------------------------------------------------
(* Properties *)

\* C1: the policy selector returns (MTS, 40) when the tier is A1 or A2, xyz is X,
\* fsn is F or S and there are at least 2 customers; otherwise (MTS-Lite, 20) when
\* (tier A1 or A2, xyz X or Y, fsn F or S, customers >= 2) or (tier A1, cv defined
\* and <= 1.75, customers >= 5, active months >= 6); otherwise (MTO, 0).
C1_PolicyTable ==
    pres # <<>> =>
        LET tier == OrEmpty(pin.abc_fine)
            rule1 == /\ tier \in {"A1", "A2"}
                     /\ pin.xyz = "X"
                     /\ pin.fsn \in {"F", "S"}
                     /\ pin.customers >= 2
            rule2 == \/ /\ tier \in {"A1", "A2"}
                        /\ pin.xyz \in {"X", "Y"}
                        /\ pin.fsn \in {"F", "S"}
                        /\ pin.customers >= 2
                     \/ /\ tier = "A1"
                        /\ pin.cv # <<>>
                        /\ 16 * pin.cv[1].num <= 49 * pin.cv[1].den
                        /\ pin.customers >= 5
                        /\ pin.active_months_12 >= 6
        IN  pres[1] = IF rule1 THEN [policy |-> "MTS", coverage |-> 40]
                      ELSE IF rule2 THEN [policy |-> "MTS-Lite", coverage |-> 20]
                      ELSE [policy |-> "MTO", coverage |-> 0]

\* the override branch decided the call: A1, Z, N, cv exactly 1.75, 5 customers
C1_Witness ==
    /\ pres # <<>>
    /\ pres[1] = [policy |-> "MTS-Lite", coverage |-> 20]
    /\ pin.xyz = "Z" /\ pin.fsn = "N"
    /\ pin.cv = <<[num |-> 49, den |-> 16]>>
    /\ pin.customers = 5


\* what the claims call the item's tier: the class of its classification record
Computed == out # <<>> /\ out[1].computed
TierA12 == db.abc # <<>> /\ Upper(Strip(db.abc[1].cls)) \in {"A1", "A2"}
MprVec == Sorted(MprLeadRows(db.lt_deltas))
IppVec == Sorted(IppLeadRows(db.lt_deltas))
MeanOf(vec) == IF vec = <<>> THEN 0 ELSE (SumSeq(vec) * SCALE) \div Len(vec)

\* the fallback chain of the claim: the tier's percentile, else the mean, else 45
ChainLead(p50, p80, mean) ==
    IF TierA12
    THEN IF p80 > 0 THEN p80 ELSE IF mean > 0 THEN mean ELSE 45 * SCALE
    ELSE IF p50 > 0 THEN p50 ELSE IF mean > 0 THEN mean ELSE 45 * SCALE

\* C2 (the Material Planning Request side): lt_used_days follows the chain over the
\* reported p50, p80 and the mean, and is strictly positive.
C2_LeadChainMpr ==
    Computed =>
        /\ out[1].lt_used_days = Round2(ChainLead(out[1].p50, out[1].p80, MeanOf(MprVec)))
        /\ out[1].lt_used_days > 0

\* C2: the lead time used by the reorder calculation is P80 (tier A1 or A2) or P50
\* (every other tier) if that is > 0, else the mean lead time if > 0, else 45; it
\* is always strictly positive.  Stated of both reorder calculations: the
\* lt_used_days of get_item_classification_for_mpr and the lead_days that
\* ItemPlanningPolicy.validate writes and compute_rol multiplies by.
C2_LeadChain ==
    /\ C2_LeadChainMpr
    /\ doc.saved =>
          /\ doc.lead_days = ChainLead(doc.p50, doc.p80, doc.lead_time_average)
          /\ doc.lead_days > 0

C4_NearestRank ==
    /\ (Computed /\ MprVec # <<>>) =>
          /\ out[1].p50 = MprVec[(Len(MprVec) + 1) \div 2] * SCALE
          /\ out[1].p80 = MprVec[(4 * Len(MprVec) + 4) \div 5] * SCALE
    /\ (doc.saved /\ IppVec # <<>>) =>
          /\ doc.p50 = IppVec[(Len(IppVec) + 1) \div 2] * SCALE
          /\ doc.p80 = IppVec[(4 * Len(IppVec) + 4) \div 5] * SCALE

\* the part of C4 the code keeps: p80 of both estimators and p50 of
\* ItemPlanningPolicy are nearest-rank elements
C4_NearestRankKept ==
    /\ (Computed /\ MprVec # <<>>) =>
          out[1].p80 = MprVec[(4 * Len(MprVec) + 4) \div 5] * SCALE
    /\ (doc.saved /\ IppVec # <<>>) =>
          /\ doc.p50 = IppVec[(Len(IppVec) + 1) \div 2] * SCALE
          /\ doc.p80 = IppVec[(4 * Len(IppVec) + 4) \div 5] * SCALE


\* equal up to the two-decimal rounding of the reported values
Within(a, b) == a - b <= 2 * (SCALE \div 100) /\ b - a <= 2 * (SCALE \div 100)

\* z_factor * daily_demand_stddev * sqrt(lead_time_used)
SafetyUnits(Z, sigma, L) == MulFx(Z, MulFx(sigma, SqrtFx(L)))

\* the demand statistics ItemPlanningPolicy.compute_safety_days works with
IppStats == _get_demand_stats(db.si_total, db.dn_total)

\* C5 (the Material Planning Request side): with add_per_day > 0 and lt_used > 0,
\* safety stock is Z * sigma * sqrt(L) and ROL is add * L + safety stock;
\* otherwise the four outputs are 0.
C5_RolMpr ==
    Computed =>
        LET o == out[1]
            Z == _z_from_abc(<<o.item_classification>>, <<o._tier>>)
            L == o.lt_used_days
        IN  IF o.add_per_day > 0 /\ L > 0
            THEN /\ Within(o.safety_stock_unit, SafetyUnits(Z, o.sigma_daily, L))
                 /\ Within(o.recommended_rol, MulFx(o.add_per_day, L) + o.safety_stock_unit)
            ELSE /\ o.safety_stock_unit = 0 /\ o.safety_day = 0
                 /\ o.recommended_rol = 0 /\ o.recommended_roq = 0

\* C5: if the daily demand mean and the lead time used are positive then
\* reorder_level = lead_time_used * mean + safety stock, where safety stock is
\* z * stddev * sqrt(lead_time_used) of the same lead time and demand statistics;
\* otherwise safety stock, safety days, reorder level and reorder quantity are 0.
\* Stated of get_item_classification_for_mpr and of the rol that
\* ItemPlanningPolicy.compute_rol writes from daily_requirement and lead_days.
C5_RolInvariant ==
    /\ C5_RolMpr
    /\ doc.saved =>
          LET L == doc.lead_days
              mean == doc.daily_requirement
              ss == SafetyUnits(_get_z_value(doc), IppStats[2], L)
          IN  IF mean > 0 /\ L > 0
              THEN Within(doc.rol, MulFx(L, mean) + ss)
              ELSE doc.safety_days = 0 /\ doc.rol = 0 /\ doc.roq = 0

\* C6 (the Material Planning Request side): the four outputs are >= 0.
C6_NonNegativeMpr ==
    Computed =>
        /\ out[1].safety_stock_unit >= 0 /\ out[1].safety_day >= 0
        /\ out[1].recommended_rol >= 0 /\ out[1].recommended_roq >= 0

\* C6: for every transaction history, returns and receipts dated before their
\* order included, safety stock, safety days, reorder level and reorder quantity
\* are >= 0, in the classification output and in the saved policy document.
C6_NonNegative ==
    /\ C6_NonNegativeMpr
    /\ doc.saved =>
          /\ doc.safety_days >= 0 /\ doc.minimum_inventory_qty >= 0
          /\ doc.rol >= 0 /\ doc.roq >= 0

\* C7: whenever add_per_day is 0 the output has safety_day = 0 and
\* recommended_roq = 0, whatever the lead time, the Z-factor and the policy.
C7_ZeroDemand ==
    (Computed /\ out[1].add_per_day = 0) =>
        /\ out[1].safety_day = 0
        /\ out[1].recommended_roq = 0
        /\ out[1].roq_suggested = 0

\* no demand, a stocked policy (coverage 40), an A1 item (Z 2.326) with lead
\* history
C7_Witness ==
    /\ Computed
    /\ out[1].add_per_day = 0
    /\ out[1].coverage_days = COVERAGE_MTS
    /\ out[1].item_classification = "A1"
    /\ out[1].lt_basis = "P80"

\* C8 (the Material Planning Request side): recommended_roq is coverage_days times
\* add_per_day, the mean of safety days and ROL; coverage_days is the policy's
\* and MTO gives 0.
C8_RoqMpr ==
    Computed =>
        LET o == out[1]
        IN  /\ o.recommended_roq = Round2(o.coverage_days * o.add_per_day)
            /\ o.coverage_days = CoverageOf(o.policy_recommendation)
            /\ o.policy_recommendation = "MTO" => o.recommended_roq = 0
            /\ o.safety_day > 0 =>
                  Within(MulFx(o.safety_day, o.add_per_day), o.safety_stock_unit)
            /\ o.recommended_rol > 0 =>
                  Within(o.recommended_rol,
                         MulFx(o.add_per_day, o.lt_used_days) + o.safety_stock_unit)

\* C8: reorder quantity is coverage_days times the daily demand mean, the same
\* mean safety stock and reorder level are computed from; coverage_days is the
\* policy's, so MTO gives 0.  Stated of get_item_classification_for_mpr and of
\* ItemPlanningPolicy (compute_roq, compute_rol, compute_safety_days).
C8_RoqSameMean ==
    /\ C8_RoqMpr
    /\ doc.saved =>
          /\ doc.roq = doc.coverage_days * doc.daily_requirement
          /\ doc.policy_recommendation = "MTO" => doc.roq = 0
          /\ doc.safety_days > 0 => Within(doc.daily_requirement, IppStats[1])

\* the Z-factor of C9 for the classification record of the item
ClaimZ ==
    IF db.abc = <<>> THEN 1960
    ELSE LET fine == Upper(Strip(db.abc[1].cls))
             coarse == Upper(Strip(db.abc[1].tier))
         IN  IF fine = "A1" THEN 2326
             ELSE IF coarse = "A" \/ StartsWithA(fine) THEN 2054
             ELSE 1960

\* C9: the Z-factor used for safety stock is 2.326 when the fine tier is A1,
\* otherwise 2.054 when the coarse class is A or the fine tier starts with "A",
\* otherwise 1.960, also when there is no classification record: the reported
\* safety stock is that Z times sigma_daily times sqrt(lt_used).
C9_ZFactor ==
    (Computed /\ out[1].add_per_day > 0 /\ out[1].sigma_daily > 0) =>
        Within(out[1].safety_stock_unit,
               SafetyUnits(ClaimZ, out[1].sigma_daily, out[1].lt_used_days))

\* XYZ of C10 for the monthly quantities: Z without two buckets or a positive
\* mean, else by cv = sample stddev / mean against 0.75 and 1.25
ClaimXyz(vals) ==
    LET n == Len(vals)
        T == SumSeq(vals)
        cv == << [num |-> (n * SumSq(vals) - T * T) * n, den |-> (n - 1) * T * T] >>
    IN  IF n < 2 \/ T <= 0 THEN "Z"
        ELSE IF CvLE(cv, 3, 4) THEN "X"
        ELSE IF CvLE(cv, 5, 4) THEN "Y"
        ELSE "Z"

\* C10 for histories of at least two monthly buckets
C10_XyzTwoBuckets ==
    Len(db.monthly) >= 2 =>
        /\ Computed => out[1].xyz_classification = ClaimXyz(db.monthly)
        /\ doc.saved => doc.xyz_classifications = ClaimXyz(db.monthly)

\* C10: xyz is X when cv <= 0.75, Y when 0.75 < cv <= 1.25 and Z otherwise, with
\* cv = stddev / mean of the monthly quantities; it is Z when the mean is not
\* positive, when there is no bucket and when there are fewer than two buckets.
C10_XyzThresholds ==
    /\ Computed => out[1].xyz_classification = ClaimXyz(db.monthly)
    /\ doc.saved => doc.xyz_classifications = ClaimXyz(db.monthly)



\* FSN of C11 for a number of active months
ClaimFsn(active_months) ==
    IF active_months >= 9 THEN "F"
    ELSE IF active_months >= 4 THEN "S"
    ELSE "N"

\* the monthly buckets of the window with quantity >= 1
ActiveMonths == Cardinality({i \in 1..Len(db.monthly) : db.monthly[i] >= 1})

WeeklyResult == _weekly_demand_from_sle(db.item, db.sle_weeks)

\* C12: the demand estimate is the monthly one (total / 365, monthly stddev /
\* sqrt(365/12)) exactly when xyz is X and the 12-month total and the monthly
\* standard deviation are positive; in every other case it is the weekly
\* estimator's result, and (0, 0) when there is no observation.
C12_DemandPath ==
    Computed =>
        LET o == out[1]
        IN  /\ IF o.xyz_classification = "X" /\ o.total_units > 0 /\ o.sd > 0
               THEN /\ o.add_per_day = o.total_units \div 365
                    /\ o.sigma_daily = DivFx(o.sd, SqrtFx(DivFx(365, 12)))
               ELSE <<o.add_per_day, o.sigma_daily>> = WeeklyResult
            /\ (db.monthly = <<>> /\ db.sle_weeks = <<>>) =>
                  o.add_per_day = 0 /\ o.sigma_daily = 0

\* an X item with valid monthly statistics and weekly data that would give
\* another estimate
C12_Witness ==
    /\ Computed
    /\ out[1].xyz_classification = "X" /\ out[1].sd > 0 /\ out[1].total_units > 0
    /\ db.sle_weeks # <<>>
    /\ <<out[1].add_per_day, out[1].sigma_daily>> # WeeklyResult

\* an X item without monthly deviation: the weekly path is taken
C12_WitnessWeekly ==
    /\ Computed
    /\ out[1].xyz_classification = "X" /\ out[1].sd = 0 /\ out[1].total_units > 0
    /\ out[1].add_per_day > 0


\* the item or the cost center of the Item Planning Policy is missing
DocInputMissing == Strip(doc.item) = "" \/ Strip(doc.cost_center) = ""

\* C13 (the Material Planning Request side): after a save, a row without item, and
\* every row of a request without cost center, has every calculated field at 0
\* (the texts empty), whatever it held before; the backend call with a missing
\* argument returns the empty result.
C13_MissingInputMpr ==
    /\ \A i \in {"", " "} :
          /\ ~get_item_classification_for_mpr(i, "CC").computed
          /\ ~get_item_classification_for_mpr("ITEM", i).computed
    /\ mpr.saved =>
          \A i \in DOMAIN mpr.material_planning_request_item :
              LET row == mpr.material_planning_request_item[i]
              IN  (Strip(mpr.cost_center) = "" \/ Strip(row.item) = "") =>
                      /\ \A f \in NumericRowFields : row[f] = 0
                      /\ row.item_classification = ""
                      /\ row.xyz_classification = ""
                      /\ row.fsn = ""

\* C13 (the Item Planning Policy side): after a save without item or cost center
\* every numeric output field is 0.
C13_MissingInputIpp ==
    (doc.saved /\ DocInputMissing) =>
        /\ \A f \in {"last_3_month_sales_qty", "monthly_requirement", "daily_requirement",
                     "lead_days", "p50_lead_days", "p50", "p80", "lead_time_average",
                     "safety_days", "minimum_inventory_qty", "rol", "roq",
                     "coverage_days", "avg_m_qty", "sd_m_qty", "units_365d",
                     "customers_t12", "active_months_12"} : doc[f] = 0
        /\ doc.cv_t12 = <<>>

\* C13: when the item or the cost center is absent the computation yields an
\* all-zero output, no field keeping a value of an earlier computation, for
\* MaterialPlanningRequest.validate and for ItemPlanningPolicy.validate.
C13_MissingInput == C13_MissingInputMpr /\ C13_MissingInputIpp


\* C14: a save of an already saved document, with nothing edited and the
\* history, classification and stock unchanged, changes no field of it: the
\* Item Planning Policy and the Material Planning Request with its rows.
C14_Idempotent ==
    [][ /\ (doc.saved /\ doc'.saved) => doc' = doc
        /\ (mpr.saved /\ mpr'.saved) => mpr' = mpr ]_vars

\* both documents saved with computed quantities: the states in which the
\* second save acts
C14_Witness ==
    /\ doc.saved /\ doc.rol > 0 /\ doc.roq > 0 /\ doc.safety_days > 0
    /\ mpr.saved
    /\ mpr.material_planning_request_item[2].recommended_rol > 0
    /\ doc = [validate(doc) EXCEPT !.saved = TRUE]
    /\ mpr = [_recompute_child_rows(mpr) EXCEPT !.saved = TRUE]


\* the rows of the stored request that a call selects and that have an item and
\* a recommended ROL > 0
Qualifying(call) ==
    SelectSeq(call.mpr.material_planning_request_item,
              LAMBDA row : /\ row.name \in call.rows.names
                           /\ Strip(row.item) # ""
                           /\ row.recommended_rol > 0)

\* the inserted Material Request has one item per qualifying row, in order, with
\* qty = recommended_rol, rounded up for a whole-number UOM
ItemsAreQualifying(call) ==
    LET q == Qualifying(call)
        items == call.result.material_request.items
    IN  /\ Len(items) = Len(q)
        /\ \A i \in 1..Len(q) :
              /\ items[i].item_code = Strip(q[i].item)
              /\ items[i].qty = IF q[i].uom = "Nos"
                                THEN ((q[i].recommended_rol + SCALE - 1) \div SCALE) * SCALE
                                ELSE q[i].recommended_rol

HeaderMissing(call) ==
    call.mpr.company = "" \/ call.mpr.cost_center = "" \/ call.mpr.warehouse = ""

\* C15 as stated: the call inserts one Material Request whose items are exactly
\* the selected rows with an item and recommended_rol > 0, with qty =
\* recommended_rol (rounded up for whole-number UOMs); it throws, inserting
\* nothing, when no row is selected or no selected row qualifies.
C15_Original ==
    \A k \in DOMAIN mrs :
        IF mrs[k].rows.names = {} \/ Qualifying(mrs[k]) = <<>>
        THEN mrs[k].result.thrown
        ELSE ~mrs[k].result.thrown /\ ItemsAreQualifying(mrs[k])

\* C15 as amended: the same, for a request whose company, cost center and
\* warehouse are set; without one of them the call throws and inserts nothing.
C15_MaterialRequest ==
    \A k \in DOMAIN mrs :
        IF mrs[k].rows.names = {} \/ Qualifying(mrs[k]) = <<>> \/ HeaderMissing(mrs[k])
        THEN mrs[k].result.thrown
        ELSE ~mrs[k].result.thrown /\ ItemsAreQualifying(mrs[k])

\* both rows selected, one qualifies, and its quantity was rounded up
C15_Witness ==
    /\ mrs # <<>>
    /\ mrs[1].rows.names = {"r1", "r2"}
    /\ ~mrs[1].result.thrown
    /\ Len(mrs[1].result.material_request.items) = 1
    /\ mrs[1].result.material_request.items[1].qty
          > mrs[1].mpr.material_planning_request_item[1].recommended_rol

\* one row selected of two that qualify: the other is not in the request
C15_WitnessUnselected ==
    /\ mrs # <<>>
    /\ mrs[1].rows.names = {"r2"}
    /\ ~mrs[1].result.thrown
    /\ mrs[1].mpr.material_planning_request_item[1].recommended_rol > 0
    /\ Len(mrs[1].result.material_request.items) = 1


\* the rows of the Item's table whose normalized (warehouse, material_request_type)
\* is the policy's
PolicyRows ==
    {i \in 1..Len(item_doc.reorder_levels) :
        /\ Norm(item_doc.reorder_levels[i].warehouse) = Norm(policy_doc.request_for_warehouse)
        /\ Norm(item_doc.reorder_levels[i].material_request_type)
              = Norm(policy_doc.material_request_type)}

Applied == applied # <<>> /\ ~applied[1].thrown

\* C16: after a successful apply_item_reorder_from_policy, whatever the table held
\* before, exactly one row has the policy's normalized (warehouse,
\* material_request_type), and its reorder level and quantity are the policy's
\* final_rol and final_roq.
C16_OneRow ==
    Applied =>
        /\ Cardinality(PolicyRows) = 1
        /\ \A i \in PolicyRows :
              /\ item_doc.reorder_levels[i].warehouse_reorder_level = policy_doc.final_rol[1]
              /\ item_doc.reorder_levels[i].warehouse_reorder_qty = policy_doc.final_roq[1]

\* a call that found duplicates whose first row already held the policy's values
C16_Witness ==
    /\ Applied
    /\ applied[1].op = "cleaned_duplicates"
    /\ Len(item_doc.reorder_levels) >= 2

\* a call that rewrote a row and left a row of another warehouse
C16_WitnessUpdated ==
    /\ Applied
    /\ applied[1].op = "updated"
    /\ \E i \in 1..Len(item_doc.reorder_levels) : item_doc.reorder_levels[i].warehouse = "W2"


\* no two Employee Checkin rows with the same (employee, time)
NoDuplicateCheckins ==
    \A i, j \in 1..Len(checkins) :
        (i # j) => ~(checkins[i].employee = checkins[j].employee
                     /\ checkins[i].time = checkins[j].time)

\* every mapped row of the device's log in the window of the result d is in the table
AlreadyImported(d) ==
    LET mapped == MappedRows(GetTransactionsLog(devices, d.from, d.to, d.serial_number))
    IN  \A i \in 1..Len(mapped) : CheckinExists(checkins, mapped[i].employee, mapped[i].ts)

\* a run whose devices fetch only rows that are in the table inserts nothing
RerunInsertsNothing ==
    /\ \A k \in 1..Len(synced'[1].devices) :
          AlreadyImported(synced'[1].devices[k]) => synced'[1].devices[k].counts.inserted = 0
    /\ (\A k \in 1..Len(synced'[1].devices) : AlreadyImported(synced'[1].devices[k]))
          => checkins' = checkins

\* C17: with essl_allow_duplicates off, after any sequence of sync_realtime_tick and
\* essl_sync runs over overlapping windows no two Employee Checkin rows have the same
\* (employee, time), and a run over logs that are already imported inserts nothing.
C17_Dedup ==
    /\ [](settings.essl_allow_duplicates = 0 => NoDuplicateCheckins)
    /\ [][settings.essl_allow_duplicates = 0 => RerunInsertsNothing]_vars

\* a tick has fetched again, in its overlap, punches that an earlier run imported
C17_Witness ==
    /\ settings.essl_allow_duplicates = 0
    /\ synced # <<>>
    /\ synced[1].api = "sync_realtime_tick"
    /\ Len(checkins) >= 2
    /\ \E k \in 1..Len(synced[1].devices) :
          /\ synced[1].devices[k].counts.skipped_existing >= 1
          /\ synced[1].devices[k].counts.inserted = 0
          /\ synced[1].devices[k].from < clock - 2 * TickSeconds

\* with essl_allow_duplicates on the same punch is stored twice
C17_WitnessAllowed ==
    settings.essl_allow_duplicates = 1 /\ ~NoDuplicateCheckins


\* decision rule 1 (MTS) and the X/Y branch of decision rule 2 (MTS-Lite), on the
\* arguments of the call
PinRule1 ==
    /\ OrEmpty(pin.abc_fine) \in {"A1", "A2"}
    /\ pin.xyz = "X"
    /\ pin.fsn \in {"F", "S"}
    /\ pin.customers >= 2

PinRule2XY ==
    /\ OrEmpty(pin.abc_fine) \in {"A1", "A2"}
    /\ pin.xyz \in {"X", "Y"}
    /\ pin.fsn \in {"F", "S"}
    /\ pin.customers >= 2

\* the policy when rule 2 is evaluated before rule 1
PinLiteFirst ==
    _pick_policy_lite_first(pin.abc_fine, pin.xyz, pin.fsn, pin.customers, pin.cv,
                            pin.active_months_12)

\* the recommendation ItemPlanningPolicy.validate stores for the same inputs
PinRecommendation ==
    compute_policy_recommendation(
        [NewDoc EXCEPT !.item_classification = OrEmpty(pin.abc_fine),
                       !.xyz_classifications = pin.xyz,
                       !.fsn_logic = pin.fsn,
                       !.customers_t12 = pin.customers,
                       !.active_months_12 = pin.active_months_12,
                       !.cv_t12 = IF pin.cv = <<>> THEN <<>> ELSE <<CvRound3(pin.cv)>>]
    ).policy_recommendation

\* the statement as the specification has it: rule 1 implies the X/Y branch of rule 2,
\* and evaluating rule 2 first gives the policy the first-match order gives
C20_Original ==
    pres # <<>> =>
        /\ PinRule1 => PinRule2XY
        /\ pres[1].policy = PinLiteFirst

\* C20: every input of rule 1 (MTS) satisfies the X/Y branch of rule 2, so the order
\* decides the outcome: first-match gives MTS on these inputs and rule 2 evaluated
\* first gives MTS-Lite; on every other input the two orders agree.
C20_Subsumed ==
    pres # <<>> =>
        /\ PinRule1 => PinRule2XY
        /\ PinRule1 => /\ pres[1].policy = "MTS"
                       /\ PinRecommendation = "MTS"
                       /\ PinLiteFirst = "MTS-Lite"
        /\ ~PinRule1 => pres[1].policy = PinLiteFirst

\* a call on an input of rule 1
C20_Witness ==
    /\ pres # <<>>
    /\ PinRule1
    /\ pres[1].policy = "MTS"

\* a call on an input of rule 2 that is not one of rule 1
C20_WitnessY ==
    /\ pres # <<>>
    /\ PinRule2XY /\ ~PinRule1
    /\ pres[1].policy = "MTS-Lite"


\* the lead-time vector of the claim: receipts dated before their order give no sample
Discarded(deltas) == SelectSeq(deltas, LAMBDA x : x >= 0)
HasNegative(deltas) == \E i \in 1..Len(deltas) : deltas[i] < 0

\* C18 (the Material Planning Request side): p50 and p80 are those of the vector
\* without the negative day differences.
C18_DiscardedMpr ==
    Computed =>
        LET lt == MprLeadStats(Discarded(db.lt_deltas))
        IN  /\ out[1].p50 = (IF lt[1] # <<>> THEN Round2(lt[1][1]) ELSE 0)
            /\ out[1].p80 = (IF lt[2] # <<>> THEN Round2(lt[2][1]) ELSE 0)

\* C18 (the Item Planning Policy side): p50, p80 and the mean are those of the vector
\* without the negative day differences.
C18_DiscardedIpp ==
    doc.saved =>
        LET vec == Sorted(Discarded(db.lt_deltas))
        IN  IF vec = <<>>
            THEN doc.p50 = 0 /\ doc.p80 = 0 /\ doc.lead_time_average = 0
            ELSE /\ doc.p50 = Round2(percentile_nearest_rank(vec, 50))
                 /\ doc.p80 = Round2(percentile_nearest_rank(vec, 80))
                 /\ doc.lead_time_average = Round2(DivFx(SumSeq(vec), Len(vec)))

\* the policy was saved for an item with a receipt dated before its order and one after
C18_WitnessIpp ==
    /\ doc.saved
    /\ HasNegative(db.lt_deltas)
    /\ doc.p50 > 0

\* C18: a purchase receipt dated before its purchase order contributes no sample to
\* the lead-time vector, so p50, p80 and the mean are those of the remaining
\* samples; only a same-day receipt gives a 0 sample.
C18_NegativeDiscarded ==
    /\ C18_DiscardedMpr
    /\ C18_DiscardedIpp


\* get_item_classification_for_mpr took the weekly path and there are weekly buckets
OnWeeklyPath ==
    /\ Computed
    /\ ~(out[1].xyz_classification = "X" /\ out[1].total_units > 0 /\ out[1].sd > 0)
    /\ db.sle_weeks # <<>>

\* C19 (the mean): on the weekly path daily_demand_mean is the arithmetic mean of the
\* weekly totals divided by 7.
C19_WeeklyMean ==
    OnWeeklyPath =>
        out[1].add_per_day = DivFx(SumSeq(db.sle_weeks), Len(db.sle_weeks)) \div 7

\* C19 (the deviation): on the weekly path daily_demand_stddev is the standard
\* deviation of the weekly totals divided by sqrt(7); 0 for a single bucket.
C19_WeeklyStddev ==
    OnWeeklyPath =>
        out[1].sigma_daily = IF Len(db.sle_weeks) < 2 THEN 0
                             ELSE DivFx(StdevSamp(db.sle_weeks), SqrtFx(Fx(7)))

\* the weekly path was taken over two weekly buckets that differ
C19_WitnessStddev ==
    /\ OnWeeklyPath
    /\ Len(db.sle_weeks) >= 2
    /\ out[1].sigma_daily > 0

\* C19: on the weekly demand path daily_demand_mean is mean(weekly totals) / 7 and
\* daily_demand_stddev is stddev(weekly totals) / sqrt(7), for every set of weekly
\* bucket totals.
C19_WeeklyStats ==
    /\ C19_WeeklyMean
    /\ C19_WeeklyStddev


\* the row i of the stored document holds what a recomputation gives it
RowRecomputed(i) ==
    mpr.material_planning_request_item[i]
        = _recompute_child_rows(mpr).material_planning_request_item[i]

\* C21: when the computation of one row of a Material Planning Request fails during
\* a save, the failure stays local to the row: every other row is recomputed.
C21_RowFailureLocal ==
    mpr.raised # "" =>
        \A i \in DOMAIN mpr.material_planning_request_item :
            mpr.material_planning_request_item[i].name # mpr.raised => RowRecomputed(i)

\* a save without an exception recomputes every row
C21_SaveRecomputes ==
    mpr.saved => \A i \in DOMAIN mpr.material_planning_request_item : RowRecomputed(i)

\* a save in which the query of the second row raised, the first row having an item
C21_WitnessRaised ==
    /\ mpr.raised = "r2"
    /\ mpr.material_planning_request_item[1].item = "ITEM"


\* the document a first save gives for the inputs of doc: nothing stored before
FreshSaved ==
    validate([NewDoc EXCEPT !.item = doc.item, !.cost_center = doc.cost_center,
                            !.company = doc.company])

\* the fields of the document that validate computes
ComputedFields == DOMAIN NewDoc \ {"item", "cost_center", "company", "saved",
                                   "_tier_value", "_class_value"}

\* C22 (inputs present): with an item and a cost center, the computed fields after a
\* save are those of a first save of the same inputs.
C22_FromScratchPresent ==
    (doc.saved /\ ~DocInputMissing) => \A f \in ComputedFields : doc[f] = FreshSaved[f]

\* C22: every save recomputes the whole output from scratch: after validate each
\* computed field is a function of the inputs and the history only, so it equals what
\* a first save of the same inputs gives, whatever was stored before.
C22_FromScratch ==
    doc.saved => \A f \in ComputedFields : doc[f] = FreshSaved[f]


\* a saved policy with item and cost center whose stored classification has no record
C22_WitnessStale ==
    /\ doc.saved
    /\ ~DocInputMissing
    /\ db.abc = <<>>
    /\ doc.item_classification = "A1"


\* the step is a tick, and every device that raised in it reads after the tick the
\* cursor it read before
FailedDevicesKeepCursor ==
    clock' # clock =>
        \A k \in 1..Len(synced'[1].devices) :
            synced'[1].devices[k].error =>
                _get_last_cursor_for_serial(settings', synced'[1].devices[k].serial_number)
                    = _get_last_cursor_for_serial(settings, synced'[1].devices[k].serial_number)

\* C23 (per-device cursors): with the child table of serials, a device that raised
\* keeps its cursor.
C23_PerDeviceCursor ==
    [][settings.essl_serials # <<>> => FailedDevicesKeepCursor]_vars

\* a tick with per-device cursors in which the first device raised and the second
\* advanced its cursor
C23_WitnessPerDevice ==
    /\ synced # <<>>
    /\ synced[1].api = "sync_realtime_tick"
    /\ Len(settings.essl_serials) = 2
    /\ Len(synced[1].devices) = 2
    /\ synced[1].devices[1].error
    /\ ~synced[1].devices[2].error
    /\ settings.essl_serials[1].last_cursor = <<>>
    /\ settings.essl_serials[2].last_cursor # <<>>

\* C23: in sync_realtime_tick the cursor of a device is advanced only on that
\* device's success: a device that raised reads on the next tick the cursor it read
\* before the failed tick, with per-device cursors and with the shared global cursor,
\* in every order of successes and failures.
C23_CursorOnlyOnSuccess ==
    [][FailedDevicesKeepCursor]_vars


\* the check-ins of the employee and day of row i that come before it when ordered by
\* time (rows of the same time in the order of their insertion)
EarlierThat(i) ==
    {j \in 1..Len(checkins) :
        /\ checkins[j].employee = checkins[i].employee
        /\ DateOf(checkins[j].time) = DateOf(checkins[i].time)
        /\ \/ checkins[j].time < checkins[i].time
           \/ checkins[j].time = checkins[i].time /\ j < i}

\* C24: with log-type inference on, after any sequence of syncs the check-ins of each
\* employee on each day, ordered by time, alternate IN, OUT, IN, ..., starting with IN.
C24_Alternating ==
    settings.essl_infer_log_type = 1 =>
        \A i \in 1..Len(checkins) :
            checkins[i].log_type = IF Cardinality(EarlierThat(i)) % 2 = 0 THEN "IN" ELSE "OUT"

\* two punches of an employee imported in the order of their times: IN, then OUT
C24_WitnessInOrder ==
    /\ settings.essl_allow_duplicates = 0
    /\ \E i, j \in 1..Len(checkins) :
          /\ i < j
          /\ checkins[i].employee = checkins[j].employee
          /\ checkins[i].time < checkins[j].time
          /\ checkins[i].log_type = "IN" /\ checkins[j].log_type = "OUT"


\* C24 (duplicates off): the same, when no (employee, time) is stored twice.
C24_AlternatingDedup ==
    settings.essl_allow_duplicates = 0 => C24_Alternating

\* the rows of a child table that do not carry this visit's id
RowsOfOthers(rows, name) == NotOfVisit(rows, name)

\* a cancel step of visit i leaves, in every table, exactly the rows of the other visits
CancelExact(i) ==
    (visits[i].docstatus = 1 /\ visits'[i].docstatus = 2) =>
        /\ \A n \in DOMAIN run_sheet_logs :
              run_sheet_logs'[n] = RowsOfOthers(run_sheet_logs[n], visits[i].name)
        /\ \A a \in DOMAIN account_logs :
              account_logs'[a] = RowsOfOthers(account_logs[a], visits[i].name)

\* C25: on_cancel removes exactly the reference rows this visit's on_submit
\* appended, from the Run Sheet and from the Customer / Lead / CRM Deal: every
\* cancel leaves each child table equal to itself without this visit's rows,
\* so rows of other visits (same employee, date and run sheet included) stay.
C25_CancelRemovesOwnRows ==
    [][\A i \in DOMAIN visits : CancelExact(i)]_vars

\* C25, the Run Sheet half: a cancel removes from the Run Sheet exactly the
\* rows carrying this visit's id.
C25_RunSheetExact ==
    [][\A i \in DOMAIN visits :
          (visits[i].docstatus = 1 /\ visits'[i].docstatus = 2) =>
              \A n \in DOMAIN run_sheet_logs :
                  run_sheet_logs'[n] = RowsOfOthers(run_sheet_logs[n], visits[i].name)]_vars

\* a visit was cancelled while another visit of the same run sheet is still
\* submitted and its row is still on the Run Sheet
C25_WitnessRunSheet ==
    \E i, j \in DOMAIN visits :
        /\ i # j
        /\ visits[i].docstatus = 2
        /\ visits[j].docstatus = 1
        /\ visits[i].run_sheet = visits[j].run_sheet
        /\ visits[j].run_sheet \in DOMAIN run_sheet_logs
        /\ \E k \in DOMAIN run_sheet_logs[visits[j].run_sheet] :
              getattr(run_sheet_logs[visits[j].run_sheet][k], "visit_id") = visits[j].name

\* the coverage days apply_coverage_from_policy derives from that recommendation
PinCoverage ==
    apply_coverage_from_policy(
        [NewDoc EXCEPT !.policy_recommendation = PinRecommendation]).coverage_days

RolLeadDays(d) == _selected_lead_days(d)

\* C27: within one ItemPlanningPolicy.validate the lead days behind safety_days,
\* the lead days behind rol and the lead_days written to the document are one
\* number, also when p50 and p80 are 0 and the average or 45 days step in.
C27_OneLeadDays ==
    (doc.saved /\ Strip(doc.item) # "" /\ Strip(doc.company) # "" /\ Strip(doc.cost_center) # "") =>
        /\ RolLeadDays(doc) = doc.lead_days
        /\ SafetyLeadDays(doc) = doc.lead_days

\* C27, the part that holds: rol is computed with the lead_days the document
\* shows, and so is safety_days whenever that number is positive.
C27_RolUsesWritten ==
    (doc.saved /\ Strip(doc.item) # "" /\ Strip(doc.company) # "" /\ Strip(doc.cost_center) # "") =>
        /\ RolLeadDays(doc) = doc.lead_days
        /\ doc.lead_days > 0 => SafetyLeadDays(doc) = doc.lead_days

\* a saved document whose lead days come from a percentile
C27_WitnessPercentile ==
    /\ doc.saved
    /\ Strip(doc.item) # ""
    /\ doc.p50 > 0
    /\ doc.lead_days = doc.p50
    /\ doc.safety_days > 0

\* the rows of another warehouse than the policy's, in table order
OtherWarehouseRows(rows) ==
    SelectSeq(rows, LAMBDA r : Norm(r.warehouse) # Norm(Strip(policy_doc.request_for_warehouse)))

\* C28: apply_item_reorder_from_policy is idempotent: a call that follows a
\* call which returned inserted, updated, cleaned_duplicates or no_change, the
\* policy unchanged, returns op = "no_change" and leaves reorder_levels as it
\* was; and no call modifies or removes a row of another warehouse (compared
\* as the code compares warehouses, stripped and case-folded).
C28_Idempotent ==
    /\ []((Applied /\ applied[1].prev # "") => applied[1].op = "no_change")
    /\ [][/\ Applied => item_doc'.reorder_levels = item_doc.reorder_levels
          /\ OtherWarehouseRows(item_doc'.reorder_levels)
                 = OtherWarehouseRows(item_doc.reorder_levels)]_vars

\* a second call after a first one that cleaned duplicates, after one that updated
\* and after one that inserted, with a row of another warehouse in the table
C28_WitnessCleaned ==
    /\ Applied
    /\ applied[1].prev = "cleaned_duplicates"
    /\ applied[1].op = "no_change"
    /\ OtherWarehouseRows(item_doc.reorder_levels) # <<>>

C28_WitnessUpdated ==
    /\ Applied
    /\ applied[1].prev = "updated"
    /\ applied[1].op = "no_change"
    /\ OtherWarehouseRows(item_doc.reorder_levels) # <<>>

C28_WitnessInserted ==
    /\ Applied
    /\ applied[1].prev = "inserted"
    /\ applied[1].op = "no_change"
    /\ OtherWarehouseRows(item_doc.reorder_levels) # <<>>

====
